---- MODULE Spec2Model ----
(***************************************************************************)
(* Model of the finalize_requirements agent of mini-sdlc-agents:            *)
(*   models.py       normalize_priority, canonicalize_metric,               *)
(*                   compute_requirements_id, Requirements.normalize        *)
(*   validator.py    _trim_strings, _dedupe_string_list, _prepare_payload,  *)
(*                   validate_and_normalize                                 *)
(*   orchestrator.py the usage ledger, the guardrails and run_finalize      *)
(*                                                                         *)
(* Python values are tagged records: Str("x"), Num(n), NoneV, Bool(b),      *)
(* List(<<..>>) and Dict(f) with f a function from key strings to values.   *)
(* Text is kept as TLA+ strings so that len(), slicing, strip(), lower()    *)
(* and the `in` substring test are computed character by character.        *)
(***************************************************************************)
EXTENDS Integers, Sequences, FiniteSets, TLC

VARIABLES
    pcall,      \* last call of normalize_priority: its argument and result
    vcall,      \* last call of validate_and_normalize: payload and outcome
    ledger,     \* runs/usage.json, the entry of today
    oracle,     \* number of oracle (LLM client) calls made so far
    run,        \* last call of run_finalize: its inputs and its result
    icall,      \* two calls of compute_requirements_id, side by side
    vpair,      \* two calls of validate_and_normalize, side by side
    dcall,      \* last call of detect_contradictions: the record and the result
    scall,      \* last call of semantic_check: inputs, oracle script and result
    rcall       \* last call of attempt_repair: inputs, oracle reply and result

vars == <<pcall, vcall, ledger, oracle, run, icall, vpair, dcall, scall, rcall>>

----------------------------------------------------------------------------
(* Python text primitives                                                   *)

UpperChars == "ABCDEFGHIJKLMNOPQRSTUVWXYZ"
LowerChars == "abcdefghijklmnopqrstuvwxyz"

CharAt(s, i) == SubSeq(s, i, i)

IsSpace(c) == c \in {" ", "\t", "\n"}

\* str.lower() as a table from the upper case letters
LowerTable == [c \in {CharAt(UpperChars, i) : i \in 1..Len(UpperChars)} |->
                 CharAt(LowerChars, CHOOSE i \in 1..Len(UpperChars) : CharAt(UpperChars, i) = c)]

LowerChar(c) == IF c \in DOMAIN LowerTable THEN LowerTable[c] ELSE c

RECURSIVE PyLower(_)
PyLower(s) ==
    IF Len(s) = 0 THEN ""
    ELSE IF Len(s) = 1 THEN LowerChar(s)
    ELSE LET half == Len(s) \div 2
         IN  PyLower(SubSeq(s, 1, half)) \o PyLower(SubSeq(s, half + 1, Len(s)))

RECURSIVE PyLStrip(_)
PyLStrip(s) ==
    IF Len(s) > 0 /\ IsSpace(CharAt(s, 1)) THEN PyLStrip(SubSeq(s, 2, Len(s))) ELSE s

RECURSIVE PyRStrip(_)
PyRStrip(s) ==
    IF Len(s) > 0 /\ IsSpace(CharAt(s, Len(s))) THEN PyRStrip(SubSeq(s, 1, Len(s) - 1)) ELSE s

PyStrip(s) == PyLStrip(PyRStrip(s))

\* Python `sub in text`
Contains(sub, text) ==
    \E i \in 1..(Len(text) - Len(sub) + 1) : SubSeq(text, i, i + Len(sub) - 1) = sub

EndsWith(text, suffix) ==
    /\ Len(text) >= Len(suffix)
    /\ SubSeq(text, Len(text) - Len(suffix) + 1, Len(text)) = suffix

RECURSIVE Rep(_, _)
Rep(c, n) ==
    IF n <= 0 THEN ""
    ELSE LET half == Rep(c, n \div 2)
         IN  half \o half \o (IF n % 2 = 1 THEN c ELSE "")

\* number of items of str.split(): maximal runs of non-space characters
RECURSIVE WordCount(_)
WordCount(s) ==
    IF Len(s) = 0 THEN 0
    ELSE LET rest == WordCount(SubSeq(s, 2, Len(s)))
         IN  IF /\ ~IsSpace(CharAt(s, 1))
                /\ (Len(s) = 1 \/ IsSpace(CharAt(s, 2)))
             THEN rest + 1
             ELSE rest

----------------------------------------------------------------------------
(* Python values                                                            *)

Str(s) == [t |-> "str", v |-> s]
Num(n) == [t |-> "num", v |-> n]
Flt(n) == [t |-> "float", v |-> n]      \* the float n / 10
Bool(b) == [t |-> "bool", v |-> b]
List(q) == [t |-> "list", v |-> q]
Dict(f) == [t |-> "dict", v |-> f]
NoneV == [t |-> "none"]

EmptyDict == Dict([k \in {} |-> NoneV])

\* Python truthiness: `not x`
Falsy(x) ==
    \/ x.t = "none"
    \/ x.t = "str" /\ x.v = ""
    \/ x.t \in {"num", "float"} /\ x.v = 0
    \/ x.t = "bool" /\ ~x.v
    \/ x.t = "list" /\ Len(x.v) = 0
    \/ x.t = "dict" /\ DOMAIN x.v = {}

HasKey(d, k) == k \in DOMAIN d.v

\* dict.get(k) with the default None
Get(d, k) == IF HasKey(d, k) THEN d.v[k] ELSE NoneV

\* a copy of dict d with key k set to x
Put(d, k, x) == Dict([j \in DOMAIN d.v \cup {k} |-> IF j = k THEN x ELSE d.v[j]])

Digits == "0123456789"

RECURSIVE IntToStr(_)
IntToStr(n) ==
    IF n < 0 THEN "-" \o IntToStr(0 - n)
    ELSE IF n < 10 THEN CharAt(Digits, n + 1)
    ELSE IntToStr(n \div 10) \o CharAt(Digits, (n % 10) + 1)

RECURSIVE JoinReprs(_)
RECURSIVE PyRepr(_)

\* str(x); a number stands for the integer it holds
PyStr(x) ==
    CASE x.t = "str" -> x.v
      [] x.t = "none" -> "None"
      [] x.t = "num" -> IntToStr(x.v)
      [] x.t = "float" -> IntToStr(x.v \div 10) \o "." \o IntToStr(x.v % 10)
      [] x.t = "datetime" -> x.v
      [] x.t = "bool" -> IF x.v THEN "True" ELSE "False"
      [] OTHER -> PyRepr(x)

PyRepr(x) ==
    CASE x.t = "str" -> "'" \o x.v \o "'"
      [] x.t = "list" -> "[" \o JoinReprs(x.v) \o "]"
      [] x.t = "dict" -> "{...}"
      [] OTHER -> PyStr(x)

JoinReprs(q) ==
    IF Len(q) = 0 THEN ""
    ELSE IF Len(q) = 1 THEN PyRepr(q[1])
    ELSE PyRepr(q[1]) \o ", " \o JoinReprs(Tail(q))

----------------------------------------------------------------------------
(* validator.py: structural preparation                                     *)

MAX_STRING_LENGTH == 200

RECURSIVE trim_strings(_, _)
trim_strings(obj, max_length) ==
    CASE obj.t = "str" ->
            IF Len(obj.v) <= max_length THEN obj ELSE Str(SubSeq(obj.v, 1, max_length))
      [] obj.t = "dict" ->
            Dict([k \in DOMAIN obj.v |-> trim_strings(obj.v[k], max_length)])
      [] obj.t = "list" ->
            List([i \in 1..Len(obj.v) |-> trim_strings(obj.v[i], max_length)])
      [] OTHER -> obj

\* the loop of _dedupe_string_list: items still to visit, the set seen, the result
RECURSIVE DedupeLoop(_, _, _)
DedupeLoop(items, seen, result) ==
    IF Len(items) = 0 THEN result
    ELSE LET item == Head(items)
         IN  IF item.t # "str" THEN DedupeLoop(Tail(items), seen, Append(result, item))
             ELSE IF item.v \in seen THEN DedupeLoop(Tail(items), seen, result)
             ELSE DedupeLoop(Tail(items), seen \cup {item.v}, Append(result, item))

\* _dedupe_string_list with the `seen` test lost
dedupe_string_list_keepall(values) == values

dedupe_string_list(values) ==
    IF values.t # "list" THEN values ELSE List(DedupeLoop(values.v, {}, <<>>))

DedupedFields == <<"stakeholders", "dependencies">>

RECURSIVE DedupeFields(_, _)
DedupeFields(data, fields) ==
    IF Len(fields) = 0 THEN data
    ELSE LET f == Head(fields)
             next == IF HasKey(data, f) THEN Put(data, f, dedupe_string_list(data.v[f]))
                     ELSE data
         IN  DedupeFields(next, Tail(fields))

\* dict(payload) raises for a payload that is no mapping and no sequence of
\* pairs; of the sequences only the empty list is modelled
DictRaises(payload) == ~(payload.t = "dict" \/ (payload.t = "list" /\ Len(payload.v) = 0))

prepare_payload(payload) ==
    LET data == IF payload.t = "dict" THEN payload ELSE EmptyDict
    IN  DedupeFields(trim_strings(data, MAX_STRING_LENGTH), DedupedFields)

----------------------------------------------------------------------------
(* models.py: normalize_priority                                            *)

high_markers == {"high", "urgent", "critical", "blocker", "highest"}
low_markers == {"low", "minor", "trivial"}
medium_markers == {"medium", "med", "normal"}

normalize_priority_lowfirst(value) ==
    LET text == PyLower(PyStrip(value))
    IN  IF text = "" THEN "medium"
        ELSE IF text \in {"1", "p0", "p1"} THEN "high"
        ELSE IF text \in {"2", "p2"} THEN "medium"
        ELSE IF text \in {"3", "4", "p3", "p4"} THEN "low"
        ELSE IF \E m \in low_markers : Contains(m, text) THEN "low"
        ELSE IF \E m \in high_markers : Contains(m, text) THEN "high"
        ELSE IF \E m \in medium_markers : Contains(m, text) THEN "medium"
        ELSE "medium"

normalize_priority(value) ==
    LET text == PyLower(PyStrip(value))
    IN  IF text = "" THEN "medium"
        ELSE IF text \in {"1", "p0", "p1"} THEN "high"
        ELSE IF text \in {"2", "p2"} THEN "medium"
        ELSE IF text \in {"3", "4", "p3", "p4"} THEN "low"
        ELSE IF \E m \in high_markers : Contains(m, text) THEN "high"
        ELSE IF \E m \in low_markers : Contains(m, text) THEN "low"
        ELSE IF \E m \in medium_markers : Contains(m, text) THEN "medium"
        ELSE "medium"

canonicalize_metric(metric) ==
    LET text == PyLower(PyStrip(metric))
    IN  IF text = "" THEN ""
        ELSE IF EndsWith(text, "seconds") THEN SubSeq(text, 1, Len(text) - Len("seconds")) \o "s"
        ELSE IF EndsWith(text, "sec") THEN SubSeq(text, 1, Len(text) - Len("sec")) \o "s"
        ELSE text

\* The printable ASCII characters in code point order (tab and newline first;
\* the grave accent is left out), for sorting keys as sort_keys=True does.
CodeOrder ==
    "\t\n !\"#$%&'()*+,-./0123456789:;<=>?@ABCDEFGHIJKLMNOPQRSTUVWXYZ[\\]^_abcdefghijklmnopqrstuvwxyz{|}~"

CharCode(c) == CHOOSE i \in 1..Len(CodeOrder) : CharAt(CodeOrder, i) = c

\* Python a < b on str
RECURSIVE StrLess(_, _)
StrLess(a, b) ==
    IF Len(a) = 0 THEN Len(b) > 0
    ELSE IF Len(b) = 0 THEN FALSE
    ELSE IF CharAt(a, 1) = CharAt(b, 1)
         THEN StrLess(SubSeq(a, 2, Len(a)), SubSeq(b, 2, Len(b)))
         ELSE CharCode(CharAt(a, 1)) < CharCode(CharAt(b, 1))

RECURSIVE SortedKeys(_)
SortedKeys(keys) ==
    IF keys = {} THEN <<>>
    ELSE LET first == CHOOSE k \in keys : \A j \in keys \ {k} : StrLess(k, j)
         IN  <<first>> \o SortedKeys(keys \ {first})

JsonEscapeChar(c) ==
    CASE c = "\"" -> "\\\""
      [] c = "\\" -> "\\\\"
      [] c = "\n" -> "\\n"
      [] c = "\t" -> "\\t"
      [] OTHER -> c

RECURSIVE JsonEscape(_)
JsonEscape(s) ==
    IF Len(s) = 0 THEN ""
    ELSE IF Len(s) = 1 THEN JsonEscapeChar(s)
    ELSE LET half == Len(s) \div 2
         IN  JsonEscape(SubSeq(s, 1, half)) \o JsonEscape(SubSeq(s, half + 1, Len(s)))

JsonString(s) == "\"" \o JsonEscape(s) \o "\""

RECURSIVE JsonDumps(_)
RECURSIVE JsonItems(_)
RECURSIVE JsonMembers(_, _)

\* json.dumps(x, sort_keys=True, separators=(",", ":"))
JsonDumps(x) ==
    CASE x.t = "str" -> JsonString(x.v)
      [] x.t = "num" -> IntToStr(x.v)
      [] x.t = "float" -> IntToStr(x.v \div 10) \o "." \o IntToStr(x.v % 10)
      [] x.t = "bool" -> IF x.v THEN "true" ELSE "false"
      [] x.t = "none" -> "null"
      [] x.t = "list" -> "[" \o JsonItems(x.v) \o "]"
      [] x.t = "dict" -> "{" \o JsonMembers(x.v, SortedKeys(DOMAIN x.v)) \o "}"

JsonItems(q) ==
    IF Len(q) = 0 THEN ""
    ELSE IF Len(q) = 1 THEN JsonDumps(q[1])
    ELSE JsonDumps(q[1]) \o "," \o JsonItems(Tail(q))

JsonMembers(f, keys) ==
    IF Len(keys) = 0 THEN ""
    ELSE JsonString(keys[1]) \o ":" \o JsonDumps(f[keys[1]])
         \o (IF Len(keys) = 1 THEN "" ELSE "," \o JsonMembers(f, Tail(keys)))

\* data without the keys id and meta
Trimmed(data) == Dict([k \in DOMAIN data.v \ {"id", "meta"} |-> data.v[k]])

\* The bytes fed to sha256: the canonical JSON, then "|" and the trace id
\* when the trace id is truthy.
Hashed(data, trace_id) ==
    JsonDumps(Trimmed(data)) \o (IF Falsy(trace_id) THEN "" ELSE "|" \o trace_id.v)

\* The sha256 digest is kept symbolic: the id text "req-" plus ten hex
\* characters, tagged with the bytes that were hashed; two ids are the same
\* id exactly when the same bytes were hashed.
HexPlaceholder == "req-##########"

\* compute_requirements_id that leaves the trace id out of the digest
compute_requirements_id_notrace(data, trace_id) ==
    [t |-> "str", v |-> HexPlaceholder, hashed |-> JsonDumps(Trimmed(data))]

compute_requirements_id(data, trace_id) ==
    [t |-> "str", v |-> HexPlaceholder, hashed |-> Hashed(data, trace_id)]

----------------------------------------------------------------------------
(* models.py: the pydantic classes, as field tables in declaration order    *)

TStr == [k |-> "str"]
TFloat == [k |-> "float"]
TBool == [k |-> "bool"]
TInt == [k |-> "int"]
TDatetime == [k |-> "datetime"]
TTarget == [k |-> "int|float|str"]
TOptional(ty) == [k |-> "optional", of |-> ty]
TList(ty) == [k |-> "list", of |-> ty]
TModel(name) == [k |-> "model", name |-> name]

Field(name, ty, required, default) ==
    [name |-> name, type |-> ty, required |-> required, default |-> default]

EmptyList == List(<<>>)

ModelFields(name) ==
    CASE name = "AcceptanceCriteria" ->
            <<Field("id", TStr, TRUE, NoneV),
              Field("description", TStr, TRUE, NoneV),
              Field("priority", TStr, TRUE, NoneV),
              Field("type", TStr, TRUE, NoneV)>>
      [] name = "FunctionalRequirement" ->
            <<Field("id", TStr, TRUE, NoneV),
              Field("description", TStr, TRUE, NoneV),
              Field("rationale", TOptional(TStr), FALSE, NoneV),
              Field("priority", TStr, TRUE, NoneV)>>
      [] name = "NonFunctionalRequirement" ->
            <<Field("id", TStr, TRUE, NoneV),
              Field("description", TStr, TRUE, NoneV),
              Field("metric", TOptional(TStr), FALSE, NoneV),
              Field("target", TOptional(TTarget), FALSE, NoneV)>>
      [] name = "Clarification" ->
            <<Field("id", TStr, TRUE, NoneV),
              Field("question", TStr, TRUE, NoneV),
              Field("context", TOptional(TStr), FALSE, NoneV),
              Field("severity", TStr, TRUE, NoneV)>>
      [] name = "ContradictionIssue" ->
            <<Field("field", TStr, TRUE, NoneV),
              Field("explanation", TStr, TRUE, NoneV)>>
      [] name = "Contradiction" ->
            <<Field("flag", TBool, TRUE, NoneV),
              Field("issues", TList(TModel("ContradictionIssue")), TRUE, NoneV)>>
      [] name = "Meta" ->
            <<Field("prompt_version", TStr, TRUE, NoneV),
              Field("model", TStr, TRUE, NoneV),
              Field("timestamp", TDatetime, TRUE, NoneV),
              Field("trace_id", TStr, TRUE, NoneV),
              Field("schema_version", TStr, TRUE, NoneV),
              Field("repair_attempted", TBool, TRUE, NoneV),
              Field("token_usage", TOptional(TInt), FALSE, NoneV)>>
      [] name = "Requirements" ->
            <<Field("id", TStr, TRUE, NoneV),
              Field("title", TStr, TRUE, NoneV),
              Field("summary", TStr, TRUE, NoneV),
              Field("stakeholders", TList(TStr), FALSE, EmptyList),
              Field("assumptions", TList(TStr), FALSE, EmptyList),
              Field("non_goals", TList(TStr), FALSE, EmptyList),
              Field("acceptance_criteria", TList(TModel("AcceptanceCriteria")), FALSE, EmptyList),
              Field("functional_requirements", TList(TModel("FunctionalRequirement")), FALSE, EmptyList),
              Field("non_functional_requirements", TList(TModel("NonFunctionalRequirement")), FALSE, EmptyList),
              Field("dependencies", TList(TStr), FALSE, EmptyList),
              Field("constraints", TList(TStr), FALSE, EmptyList),
              Field("clarifications", TList(TModel("Clarification")), FALSE, EmptyList),
              Field("contradiction", TOptional(TModel("Contradiction")), FALSE, NoneV),
              Field("confidence", TFloat, TRUE, NoneV),
              Field("meta", TModel("Meta"), TRUE, NoneV)>>

\* texts pydantic parses in lax mode
NumericStrings == {"0", "1", "42", "0.9"}
BoolStrings == {"true", "false", "yes", "no", "on", "off", "0", "1"}
ValidTimestamps == {"2025-11-30T08:00:00Z", "2025-11-30T00:00:00Z"}

Err(loc, msg) == [loc |-> loc, msg |-> msg]
Ok(val) == [errs |-> <<>>, val |-> val]
Bad(loc, msg) == [errs |-> <<Err(loc, msg)>>, val |-> NoneV]

\* validation of a value of a scalar type at location loc
ValidateScalar(ty, x, loc) ==
    CASE ty.k = "str" ->
            IF x.t = "str" THEN Ok(x) ELSE Bad(loc, "Input should be a valid string")
      [] ty.k = "float" ->
            IF x.t \in {"num", "float", "bool"} \/ (x.t = "str" /\ x.v \in NumericStrings)
            THEN Ok(x) ELSE Bad(loc, "Input should be a valid number")
      [] ty.k = "int" ->
            IF x.t \in {"num", "bool"} \/ (x.t = "str" /\ x.v \in NumericStrings \ {"0.9"})
            THEN Ok(x) ELSE Bad(loc, "Input should be a valid integer")
      [] ty.k = "bool" ->
            IF \/ x.t = "bool"
               \/ x.t = "num" /\ x.v \in {0, 1}
               \/ x.t = "str" /\ PyLower(x.v) \in BoolStrings
            THEN Ok(x) ELSE Bad(loc, "Input should be a valid boolean")
      [] ty.k = "datetime" ->
            IF x.t \in {"datetime", "num"} \/ (x.t = "str" /\ x.v \in ValidTimestamps)
            THEN Ok([t |-> "datetime", v |-> PyStr(x)])
            ELSE Bad(loc, "Input should be a valid datetime")
      [] ty.k = "int|float|str" ->
            IF x.t \in {"num", "float", "bool", "str"} THEN Ok(x)
            ELSE [errs |-> <<Err(Append(loc, "int"), "Input should be a valid integer"),
                             Err(Append(loc, "float"), "Input should be a valid number"),
                             Err(Append(loc, "str"), "Input should be a valid string")>>,
                  val |-> NoneV]

RECURSIVE Validate(_, _, _)
RECURSIVE ValidateItems(_, _, _, _)
RECURSIVE ValidateFields(_, _, _)

\* pydantic validation of value x against type ty; loc is the error location
Validate(ty, x, loc) ==
    CASE ty.k = "optional" ->
            IF x.t = "none" THEN Ok(NoneV) ELSE Validate(ty.of, x, loc)
      [] ty.k = "list" ->
            IF x.t # "list" THEN Bad(loc, "Input should be a valid list")
            ELSE LET r == ValidateItems(ty.of, x.v, loc, 0)
                 IN  [errs |-> r.errs, val |-> List(r.val)]
      [] ty.k = "model" ->
            IF x.t # "dict"
            THEN Bad(loc, "Input should be a valid dictionary or instance of " \o ty.name)
            ELSE LET r == ValidateFields(ModelFields(ty.name), x, loc)
                 IN  [errs |-> r.errs, val |-> Dict(r.val)]
      [] OTHER -> ValidateScalar(ty, x, loc)

\* the items of a list, the index of the first one being idx
ValidateItems(ty, items, loc, idx) ==
    IF Len(items) = 0 THEN [errs |-> <<>>, val |-> <<>>]
    ELSE LET first == Validate(ty, Head(items), Append(loc, IntToStr(idx)))
             rest == ValidateItems(ty, Tail(items), loc, idx + 1)
         IN  [errs |-> first.errs \o rest.errs, val |-> <<first.val>> \o rest.val]

\* the fields of a model in declaration order; keys that are no field are dropped
ValidateFields(fields, x, loc) ==
    IF Len(fields) = 0 THEN [errs |-> <<>>, val |-> [k \in {} |-> NoneV]]
    ELSE LET f == Head(fields)
             first == IF HasKey(x, f.name) THEN Validate(f.type, x.v[f.name], Append(loc, f.name))
                      ELSE IF f.required THEN Bad(Append(loc, f.name), "Field required")
                      ELSE Ok(f.default)
             rest == ValidateFields(Tail(fields), x, loc)
         IN  [errs |-> first.errs \o rest.errs, val |-> (f.name :> first.val) @@ rest.val]

----------------------------------------------------------------------------
(* models.py: Requirements.normalize                                        *)

\* `working.get(key) or []`, and whether iterating it and calling dict(item)
\* on every item raises
ItemsOf(working, key) ==
    LET x == Get(working, key) IN IF Falsy(x) \/ x.t # "list" THEN <<>> ELSE x.v

ItemsRaise(working, key) ==
    LET x == Get(working, key)
    IN  /\ ~Falsy(x)
        /\ \/ x.t # "list"
           \/ \E i \in 1..Len(x.v) : DictRaises(x.v[i])

AsDict(item) == IF item.t = "dict" THEN item ELSE EmptyDict

\* d["priority"] = normalize_priority(str(d.get("priority", "")))
WithPriority(item) ==
    LET d == AsDict(item)
        raw == IF HasKey(d, "priority") THEN PyStr(d.v["priority"]) ELSE ""
    IN  Put(d, "priority", Str(normalize_priority(raw)))

\* d["metric"] = canonicalize_metric(str(metric) if metric is not None else "")
WithMetric(item) ==
    LET d == AsDict(item)
        metric_value == IF Get(d, "metric").t # "none" THEN PyStr(Get(d, "metric")) ELSE ""
    IN  Put(d, "metric", Str(canonicalize_metric(metric_value)))

\* trace_id.encode() of a truthy trace id that is no string raises
IdRaises(working, trace_id) ==
    /\ ~HasKey(working, "id") \/ Falsy(working.v["id"])
    /\ ~Falsy(trace_id)
    /\ trace_id.t # "str"

PriorityList(items) == List([i \in 1..Len(items) |-> WithPriority(items[i])])

MetricList(items) == List([i \in 1..Len(items) |-> WithMetric(items[i])])

\* working with the three lists of items normalized
NormalizeItems(working) ==
    Put(Put(Put(working,
                "acceptance_criteria",
                PriorityList(ItemsOf(working, "acceptance_criteria"))),
            "functional_requirements",
            PriorityList(ItemsOf(working, "functional_requirements"))),
        "non_functional_requirements",
        MetricList(ItemsOf(working, "non_functional_requirements")))

\* working["id"] = compute_requirements_id(working, trace_id) unless an id is given
EnsureId(working, trace_id) ==
    IF ~HasKey(working, "id") \/ Falsy(working.v["id"])
    THEN Put(working, "id", compute_requirements_id(working, trace_id))
    ELSE working

\* cls.model_validate(working): the record, or the errors of a ValidationError
ModelValidated(r) == [raised |-> FALSE, errs |-> r.errs, val |-> Dict(r.val)]

Requirements_normalize(data, trace_id) ==
    IF \/ ItemsRaise(data, "acceptance_criteria")
       \/ ItemsRaise(data, "functional_requirements")
       \/ ItemsRaise(data, "non_functional_requirements")
       \/ IdRaises(data, trace_id)
    THEN [raised |-> TRUE, errs |-> <<>>, val |-> NoneV]
    ELSE ModelValidated(ValidateFields(ModelFields("Requirements"),
                                       EnsureId(NormalizeItems(data), trace_id), <<>>))

----------------------------------------------------------------------------
(* validator.py: validate_and_normalize                                     *)

RECURSIVE JoinDots(_)
JoinDots(loc) ==
    IF Len(loc) = 0 THEN ""
    ELSE IF Len(loc) = 1 THEN loc[1]
    ELSE loc[1] \o "." \o JoinDots(Tail(loc))

FormatError(err) ==
    LET loc == JoinDots(err.loc)
    IN  IF loc # "" THEN loc \o ": " \o err.msg ELSE err.msg

RequiredKeys == <<"summary", "acceptance_criteria">>

RECURSIVE MissingRequired(_, _)
MissingRequired(prepared, fields) ==
    IF Len(fields) = 0 THEN <<>>
    ELSE (IF ~HasKey(prepared, Head(fields)) THEN <<Head(fields) \o ": Field required">> ELSE <<>>)
         \o MissingRequired(prepared, Tail(fields))

Rejected(errors) == [record |-> NoneV, errors |-> errors]

FormatErrors(errs) == [i \in 1..Len(errs) |-> FormatError(errs[i])]

\* the except clauses that leave `errors` empty when Requirements.normalize
\* raises something else than a ValidationError
NormalizeOutcomeEmptyErrors(n) ==
    IF n.raised THEN Rejected(<<>>)
    ELSE IF Len(n.errs) > 0 THEN Rejected(FormatErrors(n.errs))
    ELSE [record |-> n.val, errors |-> <<>>]

\* what validate_and_normalize returns once Requirements.normalize has
\* returned or raised
NormalizeOutcome(n) ==
    IF n.raised THEN Rejected(<<"Unexpected validation error">>)
    ELSE IF Len(n.errs) > 0 THEN Rejected(FormatErrors(n.errs))
    ELSE [record |-> n.val, errors |-> <<>>]

\* payload.get("meta", {}).get("trace_id") of a meta that is a dict
TraceIdOf(prepared) ==
    IF Get(prepared, "meta").t = "dict" THEN Get(Get(prepared, "meta"), "trace_id") ELSE NoneV

\* the errors of both the missing keys and the schema, without the early return
NoReturnOutcome(missing_required, n) ==
    IF n.raised THEN Rejected(<<"Unexpected validation error">>)
    ELSE IF Len(missing_required \o FormatErrors(n.errs)) > 0
    THEN Rejected(missing_required \o FormatErrors(n.errs))
    ELSE [record |-> n.val, errors |-> <<>>]

\* validate_and_normalize without the early return on missing keys
ValidatePreparedNoReturn(prepared) ==
    NoReturnOutcome(MissingRequired(prepared, RequiredKeys),
                    Requirements_normalize(prepared, TraceIdOf(prepared)))

\* validate_and_normalize on the prepared payload
ValidatePrepared(prepared) ==
    IF Len(MissingRequired(prepared, RequiredKeys)) > 0
    THEN Rejected(MissingRequired(prepared, RequiredKeys))
    ELSE NormalizeOutcome(Requirements_normalize(prepared, TraceIdOf(prepared)))

validate_and_normalize(payload) ==
    IF DictRaises(payload) THEN Rejected(<<"Invalid payload type">>)
    ELSE ValidatePrepared(prepare_payload(payload))

\* arguments tried: every core text, alone and wrapped in white space, in
\* upper case, and as a part of a longer text
PriorityCores ==
    {"", "1", "2", "3", "4", "5", "p0", "p1", "p2", "p3", "p4", "p5", "P0", "P2", "P3",
     "high", "urgent", "critical", "blocker", "highest", "low", "minor", "trivial",
     "medium", "med", "normal", "HIGH", "Urgent", "MED", "Low", "None", "asap",
     "minor issue", "low priority", "high or low", "low then high", "medium low",
     "normal minor", "med high", "slow", "immediate", "p1 blocker", "12", "p",
     "\tP1\n", " 3 "}

PriorityPrefixes == {"", " ", "\t ", "x", "not "}
PrioritySuffixes == {"", " ", "\n", "!", " 1"}

PriorityInputs ==
    {p \o c \o s : p \in PriorityPrefixes, c \in PriorityCores, s \in PrioritySuffixes}

NoCall == [called |-> FALSE]

NormalizePriority ==
    /\ pcall.called = FALSE
    /\ "value" \in DOMAIN pcall
    /\ pcall' = [called |-> TRUE, value |-> pcall.value,
                 result |-> normalize_priority(pcall.value)]
    /\ UNCHANGED <<vcall, ledger, oracle, run, icall, vpair, dcall, scall, rcall>>

EmptyLedger == [tokens |-> 0, calls |-> 0]

InitPriority ==
    /\ pcall \in {[called |-> FALSE, value |-> value] : value \in PriorityInputs}
    /\ vcall = NoCall
    /\ ledger = EmptyLedger
    /\ oracle = 0
    /\ run = NoCall
    /\ icall = NoCall
    /\ vpair = NoCall
    /\ dcall = NoCall
    /\ scall = NoCall
    /\ rcall = NoCall

NextPriority == NormalizePriority

SpecPriority == InitPriority /\ [][NextPriority]_vars

----------------------------------------------------------------------------
(* C10: normalize_priority is total over strings and returns one of low,    *)
(* medium, high: after strip and lower, the exact codes 1/p0/p1 give high,  *)
(* 2/p2 medium, 3/4/p3/p4 low; otherwise the first marker set with a        *)
(* member contained in the text wins in the order high, low, medium; empty  *)
(* or unmatched text gives medium.                                          *)

C10_Expected(value) ==
    LET t == PyLower(PyStrip(value))
        hasHigh == \E m \in {"high", "urgent", "critical", "blocker", "highest"} : Contains(m, t)
        hasLow == \E m \in {"low", "minor", "trivial"} : Contains(m, t)
    IN  CASE t \in {"1", "p0", "p1"} -> "high"
          [] t = "2" \/ t = "p2" -> "medium"
          [] t \in {"3", "4", "p3", "p4"} -> "low"
          [] OTHER -> IF hasHigh THEN "high" ELSE IF hasLow THEN "low" ELSE "medium"

C10_PriorityTotal ==
    pcall.called =>
        /\ pcall.result \in {"low", "medium", "high"}
        /\ pcall.result = C10_Expected(pcall.value)

\* a text containing both a low and a high marker, with the low marker first
C10_Witness ==
    /\ pcall.called
    /\ pcall.value = " low then high "
    /\ pcall.result = "high"

----------------------------------------------------------------------------
(* contradiction.py: the deterministic rules                                *)

\* string.punctuation; the backquote, which no text of the model contains,
\* cannot be written in a string here
Punctuation == "!\"#$%&'()*+,-./:;<=>?@[\\]^_{|}~"

PunctuationChars == {CharAt(Punctuation, i) : i \in 1..Len(Punctuation)}

PunctToSpace(c) == IF c \in PunctuationChars THEN " " ELSE c

\* text.lower().translate(_PUNCT_TO_SPACE)
RECURSIVE LowerNoPunct(_)
LowerNoPunct(s) ==
    IF Len(s) = 0 THEN ""
    ELSE IF Len(s) = 1 THEN PunctToSpace(LowerChar(s))
    ELSE LET half == Len(s) \div 2
         IN  LowerNoPunct(SubSeq(s, 1, half)) \o LowerNoPunct(SubSeq(s, half + 1, Len(s)))

\* str.split(): the maximal runs of characters that are no white space
RECURSIVE PySplit(_)
PySplit(s) ==
    LET t == PyLStrip(s)
    IN  IF Len(t) = 0 THEN <<>>
        ELSE LET stops == {i \in 1..Len(t) : IsSpace(CharAt(t, i))}
                 stop == IF stops = {} THEN Len(t) + 1
                         ELSE CHOOSE i \in stops : \A j \in stops : i <= j
             IN  <<SubSeq(t, 1, stop - 1)>> \o PySplit(SubSeq(t, stop, Len(t)))

RECURSIVE JoinSpaces(_)
JoinSpaces(words) ==
    IF Len(words) = 0 THEN ""
    ELSE IF Len(words) = 1 THEN words[1]
    ELSE words[1] \o " " \o JoinSpaces(Tail(words))

normalize_text(text) == JoinSpaces(PySplit(LowerNoPunct(text)))

SYNONYMS(tok) ==
    CASE tok \in {"db", "database", "databases"} -> "database"
      [] tok \in {"session", "sessions"} -> "session"
      [] OTHER -> tok

tokenize(text) ==
    LET raw_tokens == PySplit(normalize_text(text))
    IN  [i \in 1..Len(raw_tokens) |-> SYNONYMS(raw_tokens[i])]

Indexed(name, idx) == name \o "[" \o IntToStr(idx) \o "]"

\* add(field, text): nothing for an empty or absent text
Source(field, text) ==
    IF Falsy(text) THEN <<>>
    ELSE <<[field |-> field, norm |-> normalize_text(text.v), tokens |-> tokenize(text.v)]>>

RECURSIVE ListSources(_, _, _)
ListSources(name, items, idx) ==
    IF idx >= Len(items) THEN <<>>
    ELSE Source(Indexed(name, idx), items[idx + 1]) \o ListSources(name, items, idx + 1)

RECURSIVE FunctionalSources(_, _)
FunctionalSources(items, idx) ==
    IF idx >= Len(items) THEN <<>>
    ELSE LET fr == items[idx + 1]
             name == Indexed("functional_requirements", idx)
         IN  Source(name \o ".description", fr.v["description"])
             \o Source(name \o ".rationale", fr.v["rationale"])
             \o FunctionalSources(items, idx + 1)

RECURSIVE NonFunctionalSources(_, _)
NonFunctionalSources(items, idx) ==
    IF idx >= Len(items) THEN <<>>
    ELSE Source(Indexed("non_functional_requirements", idx) \o ".description",
                items[idx + 1].v["description"])
         \o NonFunctionalSources(items, idx + 1)

collect_sources(req) ==
    Source("title", req.v["title"])
    \o Source("summary", req.v["summary"])
    \o ListSources("non_goals", req.v["non_goals"].v, 0)
    \o ListSources("dependencies", req.v["dependencies"].v, 0)
    \o ListSources("constraints", req.v["constraints"].v, 0)
    \o FunctionalSources(req.v["functional_requirements"].v, 0)
    \o NonFunctionalSources(req.v["non_functional_requirements"].v, 0)

InSeq(x, q) == \E i \in 1..Len(q) : q[i] = x

ContradictionIssue(field, explanation) ==
    Dict(("field" :> Str(field)) @@ ("explanation" :> Str(explanation)))

fields_with_token(sources, token) ==
    LET hits == SelectSeq(sources, LAMBDA src : InSeq(token, src.tokens))
    IN  [i \in 1..Len(hits) |-> hits[i].field]

\* the fields of the sources whose normalized text satisfies Has
FieldsWhere(sources, Has(_)) ==
    LET hits == SelectSeq(sources, LAMBDA src : Has(src.norm))
    IN  [i \in 1..Len(hits) |-> hits[i].field]

\* BinaryIssue naming the last matching field of either side
BinaryIssueLast(a_fields, b_fields, explanation) ==
    IF Len(a_fields) > 0 /\ Len(b_fields) > 0
    THEN <<ContradictionIssue(a_fields[Len(a_fields)] \o " & " \o b_fields[Len(b_fields)],
                              explanation)>>
    ELSE <<>>

\* one issue naming the first field of either side when both sides are matched
BinaryIssue(a_fields, b_fields, explanation) ==
    IF Len(a_fields) > 0 /\ Len(b_fields) > 0
    THEN <<ContradictionIssue(a_fields[1] \o " & " \o b_fields[1], explanation)>>
    ELSE <<>>

StatelessExplanation ==
    "Requirements mention 'stateless' but also refer to 'session' or "
    \o "session state, which implies stateful behavior."

rule_stateless_vs_session(sources) ==
    BinaryIssue(fields_with_token(sources, "stateless"),
                fields_with_token(sources, "session"),
                StatelessExplanation)

has_no_db(normalized_text) ==
    Contains("no db", normalized_text) \/ Contains("no database", normalized_text)

has_persistence(normalized_text) ==
    \/ Contains("persistence", normalized_text)
    \/ Contains("persistent", normalized_text)
    \/ Contains("store data", normalized_text)
    \/ Contains("database", normalized_text)

NoDbExplanation ==
    "Requirements state there should be no database but also imply "
    \o "data persistence or database usage."

rule_no_db_vs_persistence(sources) ==
    BinaryIssue(FieldsWhere(sources, has_no_db),
                FieldsWhere(sources, has_persistence),
                NoDbExplanation)

has_single_user(normalized_text) == Contains("single user", normalized_text)

has_multi_tenant(normalized_text) ==
    Contains("multi tenant", normalized_text) \/ Contains("multitenant", normalized_text)

SingleUserExplanation ==
    "Requirements describe both single-user and multi-tenant behavior, "
    \o "which are typically mutually exclusive deployment models."

rule_single_user_vs_multi_tenant(sources) ==
    BinaryIssue(FieldsWhere(sources, has_single_user),
                FieldsWhere(sources, has_multi_tenant),
                SingleUserExplanation)

has_no_external_network(normalized_text) ==
    \/ Contains("no external network", normalized_text)
    \/ Contains("no external access", normalized_text)
    \/ Contains("offline only", normalized_text)

has_external_api(normalized_text) ==
    Contains("external api", normalized_text) \/ Contains("third party api", normalized_text)

NoExternalExplanation ==
    "Requirements forbid external network access but also reference "
    \o "an external API, which requires such access."

rule_no_external_vs_external_api(sources) ==
    BinaryIssue(FieldsWhere(sources, has_no_external_network),
                FieldsWhere(sources, has_external_api),
                NoExternalExplanation)

\* NormalizedItems that numbers the items after the empty ones are dropped
NormalizedItemsRenumbered(name, items) ==
    LET idxs == SelectSeq([i \in 1..Len(items) |-> i], LAMBDA i : ~Falsy(items[i]))
    IN  [k \in 1..Len(idxs) |->
            [text |-> normalize_text(items[idxs[k]].v), field |-> Indexed(name, k - 1)]]

\* the (normalized text, field) pairs of the non-empty items of a list
NormalizedItems(name, items) ==
    LET idxs == SelectSeq([i \in 1..Len(items) |-> i], LAMBDA i : ~Falsy(items[i]))
    IN  [k \in 1..Len(idxs) |->
            [text |-> normalize_text(items[idxs[k]].v), field |-> Indexed(name, idxs[k] - 1)]]

NonGoalExplanation ==
    "An item appears both as a non-goal and as a dependency, "
    \o "which is contradictory."

\* the two loops of _rule_non_goals_vs_dependencies
RECURSIVE PairIssues(_, _, _, _)
PairIssues(non_goals, deps, i, j) ==
    IF i > Len(non_goals) THEN <<>>
    ELSE IF j > Len(deps) THEN PairIssues(non_goals, deps, i + 1, 1)
    ELSE (IF /\ non_goals[i].text # ""
             /\ deps[j].text # ""
             /\ non_goals[i].text = deps[j].text
          THEN <<ContradictionIssue(non_goals[i].field \o " & " \o deps[j].field,
                                    NonGoalExplanation)>>
          ELSE <<>>)
         \o PairIssues(non_goals, deps, i, j + 1)

rule_non_goals_vs_dependencies(req) ==
    PairIssues(NormalizedItems("non_goals", req.v["non_goals"].v),
               NormalizedItems("dependencies", req.v["dependencies"].v), 1, 1)

\* RuleIssues with the non-goal rule applied first
RuleIssuesNonGoalsFirst(sources, requirements) ==
    rule_non_goals_vs_dependencies(requirements)
    \o rule_stateless_vs_session(sources)
    \o rule_no_db_vs_persistence(sources)
    \o rule_single_user_vs_multi_tenant(sources)
    \o rule_no_external_vs_external_api(sources)

\* the issues of the five rules, in the order the rules are applied
RuleIssues(sources, requirements) ==
    rule_stateless_vs_session(sources)
    \o rule_no_db_vs_persistence(sources)
    \o rule_single_user_vs_multi_tenant(sources)
    \o rule_no_external_vs_external_api(sources)
    \o rule_non_goals_vs_dependencies(requirements)

\* None without issues, else Contradiction(flag=True, issues=issues)
ContradictionOf(issues) ==
    IF Len(issues) = 0 THEN NoneV
    ELSE Dict(("flag" :> Bool(TRUE)) @@ ("issues" :> List(issues)))

detect_contradictions(requirements) ==
    ContradictionOf(RuleIssues(collect_sources(requirements), requirements))

----------------------------------------------------------------------------
(* validator.py: the repair attempt                                         *)

\* a Python str holding json.dumps(x); every other Str is text that
\* json.loads rejects
Json(x) == [t |-> "json", v |-> x]

IsPyStr(x) == x.t \in {"str", "json"}

\* x or {} and x or []
OrEmptyDict(x) == IF Falsy(x) THEN EmptyDict ELSE x
OrEmptyList(x) == IF Falsy(x) THEN EmptyList ELSE x

\* message.tool_calls[0].function.arguments, when it is a dict or parses
PrimaryArgs(message) ==
    LET tool_calls == OrEmptyList(Get(message, "tool_calls"))
        args_raw == Get(OrEmptyDict(Get(tool_calls.v[1], "function")), "arguments")
    IN  IF tool_calls.t = "list" /\ Len(tool_calls.v) > 0
        THEN (IF args_raw.t = "dict" THEN [found |-> TRUE, val |-> args_raw]
              ELSE IF args_raw.t = "json" THEN [found |-> TRUE, val |-> args_raw.v]
              ELSE [found |-> FALSE, val |-> NoneV])
        ELSE [found |-> FALSE, val |-> NoneV]

\* message.tool_call or message.function_call, when it has arguments
FallbackArgs(message) ==
    LET tool_call == IF ~Falsy(Get(message, "tool_call")) THEN Get(message, "tool_call")
                     ELSE Get(message, "function_call")
    IN  IF ~Falsy(tool_call) /\ HasKey(tool_call, "arguments")
        THEN [found |-> TRUE,
              val |-> LET args_raw == tool_call.v["arguments"]
                      IN  IF args_raw.t = "dict" THEN args_raw
                          ELSE IF args_raw.t = "json" THEN args_raw.v
                          ELSE NoneV]
        ELSE [found |-> FALSE, val |-> NoneV]

\* tool_calls at the top level of the response
TopLevelArgs(raw_model_resp) ==
    LET tc == Get(raw_model_resp, "tool_calls")
        args == Get(tc.v[1], "arguments")
    IN  IF tc.t = "list" /\ Len(tc.v) > 0
        THEN (IF args.t = "json" THEN args.v
              ELSE IF args.t = "dict" THEN args
              ELSE NoneV)
        ELSE NoneV

extract_function_args_from_model_response(raw_model_resp) ==
    LET choices == OrEmptyList(Get(raw_model_resp, "choices"))
        message == OrEmptyDict(Get(choices.v[1], "message"))
    IN  IF Len(choices.v) > 0 /\ PrimaryArgs(message).found THEN PrimaryArgs(message).val
        ELSE IF Len(choices.v) > 0 /\ FallbackArgs(message).found THEN FallbackArgs(message).val
        ELSE TopLevelArgs(raw_model_resp)

\* what the oracle does when called: raise an exception with a message, or
\* return client_result
Raises(message) == [raises |-> TRUE, message |-> message]
Returns(client_result) == [raises |-> FALSE, result |-> client_result]

\* the record with meta.repair_attempted, meta.model and meta.token_usage set
MarkRepaired(record, repair_meta) ==
    LET m0 == Put(record.v["meta"], "repair_attempted", Bool(TRUE))
        model_name == Get(repair_meta, "model")
        m1 == IF IsPyStr(model_name) THEN Put(m0, "model", model_name) ELSE m0
        usage_info == Get(repair_meta, "usage")
        total_tokens == IF usage_info.t = "dict" THEN Get(usage_info, "total_tokens") ELSE NoneV
        m2 == IF total_tokens.t = "num" THEN Put(m1, "token_usage", total_tokens) ELSE m1
    IN  Put(record, "meta", m2)

\* attempt_repair once the candidate has been validated as v; built is the
\* record as validate_and_normalize constructed it, record the same object
\* as it is handed back, after the assignments to its meta
Revalidated(v, repaired_candidate, repair_meta) ==
    IF v.record # NoneV
    THEN [record |-> MarkRepaired(v.record, repair_meta), repaired |-> repaired_candidate,
          meta |-> repair_meta, calls |-> 1, validations |-> 1, built |-> v.record]
    ELSE [record |-> NoneV, repaired |-> repaired_candidate, meta |-> repair_meta,
          calls |-> 1, validations |-> 1, built |-> NoneV]

\* a variant that asks the oracle a second time when the candidate is unusable
ExtractedRetrying(repaired_candidate, repair_meta) ==
    IF Falsy(repaired_candidate)
    THEN [record |-> NoneV, repaired |-> NoneV, meta |-> repair_meta, calls |-> 2,
          validations |-> 0, built |-> NoneV]
    ELSE Revalidated(validate_and_normalize(repaired_candidate), repaired_candidate, repair_meta)

\* attempt_repair once the candidate has been extracted from the response
Extracted(repaired_candidate, repair_meta) ==
    IF Falsy(repaired_candidate)
    THEN [record |-> NoneV, repaired |-> NoneV, meta |-> repair_meta, calls |-> 1,
          validations |-> 0, built |-> NoneV]
    ELSE Revalidated(validate_and_normalize(repaired_candidate), repaired_candidate, repair_meta)

\* a variant that lets the oracle's exception through to the caller
attempt_repair_uncaught(raw_payload, validation_errors, trace_id, reply) ==
    IF raw_payload.t # "dict"
    THEN [record |-> NoneV, repaired |-> NoneV,
          meta |-> Dict(("error" :> Str("object has no attribute 'keys'"))), calls |-> 0,
          validations |-> 0, built |-> NoneV, raised |-> FALSE]
    ELSE IF reply.raises
    THEN [record |-> NoneV, repaired |-> NoneV, meta |-> NoneV, calls |-> 1,
          validations |-> 0, built |-> NoneV, raised |-> TRUE]
    ELSE Extracted(extract_function_args_from_model_response(
                       OrEmptyDict(Get(reply.result, "response"))),
                   Dict(("model" :> Get(reply.result, "model"))
                        @@ ("usage" :> Get(reply.result, "usage"))))
         @@ [raised |-> FALSE]

\* attempt_repair with the reply the oracle gives to its one call; calls is
\* the number of oracle calls made, validations the number of calls of
\* validate_and_normalize, raised whether an exception leaves the function
attempt_repair(raw_payload, validation_errors, trace_id, reply) ==
    IF raw_payload.t # "dict"
    THEN [record |-> NoneV, repaired |-> NoneV,
          meta |-> Dict(("error" :> Str("object has no attribute 'keys'"))), calls |-> 0,
          validations |-> 0, built |-> NoneV, raised |-> FALSE]
    ELSE IF reply.raises
    THEN [record |-> NoneV, repaired |-> NoneV,
          meta |-> Dict(("error" :> Str(reply.message))), calls |-> 1,
          validations |-> 0, built |-> NoneV, raised |-> FALSE]
    ELSE Extracted(extract_function_args_from_model_response(
                       OrEmptyDict(Get(reply.result, "response"))),
                   Dict(("model" :> Get(reply.result, "model"))
                        @@ ("usage" :> Get(reply.result, "usage"))))
         @@ [raised |-> FALSE]

----------------------------------------------------------------------------
(* orchestrator.py                                                          *)

PROMPT_VERSION == "v1"
SCHEMA_VERSION == "v1"

\* the usage file is modelled by the entry of the current day
\* _get_daily_totals: the tokens used today
get_daily_totals(state) == state.tokens

\* _update_usage_counters with cost None: no price is configured
update_usage_counters(state, usage) ==
    LET total_tokens == IF Falsy(Get(usage, "total_tokens")) THEN 0 ELSE Get(usage, "total_tokens").v
    IN  IF Falsy(usage) THEN state
        ELSE IF total_tokens <= 0 THEN state
        ELSE [tokens |-> state.tokens + total_tokens, calls |-> state.calls + 1]

ValueError(message) == [raised |-> TRUE, message |-> message, val |-> NoneV]

\* the first tool call named finalize_requirements decides
RECURSIVE FunctionPayload(_)
FunctionPayload(tool_calls) ==
    IF Len(tool_calls) = 0
    THEN ValueError("No finalize_requirements function tool call found in model response.")
    ELSE LET function == OrEmptyDict(Get(Head(tool_calls), "function"))
             args_str == Get(function, "arguments")
         IN  IF Get(function, "name") # Str("finalize_requirements")
             THEN FunctionPayload(Tail(tool_calls))
             ELSE IF ~IsPyStr(args_str)
             THEN ValueError("Tool call arguments were not a string as expected.")
             ELSE IF args_str.t = "json" THEN [raised |-> FALSE, message |-> "", val |-> args_str.v]
             ELSE ValueError("Tool call arguments were not valid JSON: " \o args_str.v)

extract_function_payload_lenient(response) ==
    LET choices == OrEmptyList(Get(response, "choices"))
        message == OrEmptyDict(Get(choices.v[1], "message"))
        tool_calls == OrEmptyList(Get(message, "tool_calls"))
    IN  IF Len(choices.v) = 0 \/ Len(tool_calls.v) = 0
        THEN [raised |-> FALSE, message |-> "", val |-> NoneV]
        ELSE FunctionPayload(tool_calls.v)

extract_function_payload(response) ==
    LET choices == OrEmptyList(Get(response, "choices"))
        message == OrEmptyDict(Get(choices.v[1], "message"))
        tool_calls == OrEmptyList(Get(message, "tool_calls"))
    IN  IF Len(choices.v) = 0 THEN ValueError("Model response contained no choices.")
        ELSE IF Len(tool_calls.v) = 0
        THEN ValueError("Model response contained no tool_calls for finalize_requirements.")
        ELSE FunctionPayload(tool_calls.v)

\* raw.splitlines()[0].strip()
FirstLine(raw) ==
    LET breaks == {i \in 1..Len(raw) : CharAt(raw, i) = "\n"}
        stop == IF breaks = {} THEN Len(raw) + 1
                ELSE CHOOSE i \in breaks : \A j \in breaks : i <= j
    IN  PyStrip(SubSeq(raw, 1, stop - 1))

Prefix(text, n) == SubSeq(text, 1, IF Len(text) < n THEN Len(text) ELSE n)

\* the local stub payload, for the empty context
StubPayload(raw, trace_id) ==
    LET title == IF raw # ""
                 THEN Prefix(IF FirstLine(raw) # "" THEN FirstLine(raw) ELSE "Draft requirements", 80)
                 ELSE "Draft requirements (empty input)"
        summary == IF raw # "" THEN Prefix(raw, 200) ELSE "No requirements text provided."
        meta_mapping ==
            Dict(("prompt_version" :> Str(PROMPT_VERSION))
                 @@ ("model" :> Str("finalize-requirements-local"))
                 @@ ("timestamp" :> [t |-> "datetime", v |-> "now"])
                 @@ ("trace_id" :> trace_id)
                 @@ ("schema_version" :> Str(SCHEMA_VERSION))
                 @@ ("repair_attempted" :> Bool(FALSE))
                 @@ ("token_usage" :> NoneV))
    IN  Dict(("title" :> Str(title)) @@ ("summary" :> Str(summary))
             @@ ("stakeholders" :> EmptyList) @@ ("assumptions" :> EmptyList)
             @@ ("non_goals" :> EmptyList) @@ ("acceptance_criteria" :> EmptyList)
             @@ ("functional_requirements" :> EmptyList)
             @@ ("non_functional_requirements" :> EmptyList)
             @@ ("dependencies" :> EmptyList) @@ ("constraints" :> EmptyList)
             @@ ("clarifications" :> EmptyList) @@ ("confidence" :> Flt(0))
             @@ ("meta" :> meta_mapping))

\* the meta of the results returned before validation
EarlyMeta(trace_id) ==
    Dict(("trace_id" :> trace_id) @@ ("prompt_version" :> Str(PROMPT_VERSION))
         @@ ("schema_version" :> Str(SCHEMA_VERSION)) @@ ("source" :> Str("orchestrator-llm")))

\* a variant that reports the failure without an error message
NeedsHumanReviewSilent(error, trace_id, state, calls) ==
    [status |-> "needs_human_review", requirements |-> NoneV, errors |-> <<>>,
     meta |-> EarlyMeta(trace_id), ledger |-> state, calls |-> calls,
     built |-> NoneV, object |-> NoneV]

NeedsHumanReview(error, trace_id, state, calls) ==
    [status |-> "needs_human_review", requirements |-> NoneV, errors |-> <<error>>,
     meta |-> EarlyMeta(trace_id), ledger |-> state, calls |-> calls,
     built |-> NoneV, object |-> NoneV]

\* usage.get("total_tokens") of a usage that is a dict
TotalTokens(usage) == IF usage.t = "dict" THEN Get(usage, "total_tokens") ELSE NoneV

\* the record with meta.model and meta.token_usage set from the call
StampModel(meta, model_name) ==
    IF model_name # NoneV THEN Put(meta, "model", model_name) ELSE meta

StampTokens(meta, total_tokens_val) ==
    IF total_tokens_val.t = "num" THEN Put(meta, "token_usage", total_tokens_val) ELSE meta

StampMeta(meta, model_name, total_tokens_val) ==
    StampTokens(StampModel(meta, model_name), total_tokens_val)

Stamp(record, model_name, usage) ==
    IF record = NoneV THEN NoneV
    ELSE Put(record, "meta", StampMeta(record.v["meta"], model_name, TotalTokens(usage)))

\* requirements.model_copy(update={"contradiction": contradiction}) when
\* the rules find one
CopyWith(requirements, contradiction) ==
    IF contradiction # NoneV THEN Put(requirements, "contradiction", contradiction)
    ELSE requirements

WithContradiction(requirements) ==
    IF requirements = NoneV THEN NoneV
    ELSE CopyWith(requirements, detect_contradictions(requirements))

MetaOf(requirements, key) ==
    IF requirements # NoneV THEN requirements.v["meta"].v[key] ELSE NoneV

\* the result of run_finalize once validation and the rules have run
Result(requirements, errors, model_name, usage, trace_id, use_llm, state, calls) ==
    [status |-> IF Len(errors) > 0 THEN "needs_human_review" ELSE "needs_clarification",
     requirements |-> requirements,
     errors |-> errors,
     meta |-> Dict(("trace_id" :> trace_id)
                   @@ ("prompt_version" :> Str(PROMPT_VERSION))
                   @@ ("schema_version" :> Str(SCHEMA_VERSION))
                   @@ ("source" :> Str(IF use_llm THEN "orchestrator-llm"
                                       ELSE "orchestrator-local-stub"))
                   @@ ("model" :> IF ~Falsy(model_name) THEN model_name
                                  ELSE MetaOf(requirements, "model"))
                   @@ ("token_usage" :> IF TotalTokens(usage).t = "num" THEN TotalTokens(usage)
                                        ELSE MetaOf(requirements, "token_usage"))
                   @@ ("cost_estimate_usd" :> NoneV)
                   @@ ("usage" :> usage)
                   @@ ("cost_alert" :> NoneV)),
     ledger |-> IF usage # NoneV THEN update_usage_counters(state, usage) ELSE state,
     calls |-> calls]

\* run_finalize once validate_and_normalize has returned v; built is the
\* record as validate_and_normalize constructed it, object the same object
\* after the assignments to its meta
Validated(v, model_name, usage, trace_id, use_llm, state, calls) ==
    Result(WithContradiction(Stamp(v.record, model_name, usage)), v.errors,
           model_name, usage, trace_id, use_llm, state, calls)
    @@ [built |-> v.record, object |-> Stamp(v.record, model_name, usage)]

\* run_finalize from validation on: payload, model_name and usage are settled
Finalize(raw_payload, model_name, usage, trace_id, use_llm, state, calls) ==
    Validated(validate_and_normalize(raw_payload), model_name, usage, trace_id, use_llm,
              state, calls)

\* max(1, len(raw.split()))
ApproxTokens(raw) == IF WordCount(raw) > 1 THEN WordCount(raw) ELSE 1

\* the guard of the per-call input cap
InputTooLong(use_llm, max_input_tokens, raw) ==
    /\ use_llm
    /\ max_input_tokens # NoneV
    /\ max_input_tokens.v > 0
    /\ raw # ""
    /\ ApproxTokens(raw) > max_input_tokens.v

QuotaExceededStrict(use_llm, daily_quota, state) ==
    /\ use_llm
    /\ daily_quota # NoneV
    /\ daily_quota.v > 0
    /\ get_daily_totals(state) > daily_quota.v

\* the guard of the daily token quota
QuotaExceeded(use_llm, daily_quota, state) ==
    /\ use_llm
    /\ daily_quota # NoneV
    /\ daily_quota.v > 0
    /\ get_daily_totals(state) >= daily_quota.v

\* run_finalize(raw_text, {}, trace_id, use_llm=.., raw_payload=..) under the
\* environment (max_input_tokens, daily_quota), the usage file `state` and
\* an oracle answering `reply`
run_finalize(raw_text, trace_arg, use_llm, payload_arg, max_input_tokens, daily_quota, reply, state) ==
    LET raw == PyStrip(raw_text)
        trace_id == IF trace_arg = NoneV THEN Str("local-demo") ELSE trace_arg
        approx_tokens == ApproxTokens(raw)
        too_long == InputTooLong(use_llm, max_input_tokens, raw)
        over_quota == QuotaExceeded(use_llm, daily_quota, state)
        structuring == payload_arg = NoneV /\ use_llm
        response == OrEmptyDict(Get(reply.result, "response"))
        usage_value == Get(reply.result, "usage")
        extracted == extract_function_payload(response)
        failed == structuring /\ (reply.raises \/ extracted.raised)
        raw_payload == IF structuring THEN extracted.val ELSE payload_arg
        model_name == IF structuring THEN Get(reply.result, "model") ELSE NoneV
        usage == IF structuring /\ usage_value.t = "dict" THEN usage_value ELSE NoneV
        calls == IF structuring THEN 1 ELSE 0
    IN  IF too_long
        THEN NeedsHumanReview("Input too long for finalize_requirements: approx "
                              \o IntToStr(approx_tokens) \o " tokens exceeds cap "
                              \o IntToStr(max_input_tokens.v)
                              \o ". Consider chunking or summarizing before calling this agent.",
                              trace_id, state, 0)
        ELSE IF over_quota
        THEN NeedsHumanReview("Daily token quota exceeded for finalize_requirements: used="
                              \o IntToStr(get_daily_totals(state)) \o " tokens, quota="
                              \o IntToStr(daily_quota.v) \o ".",
                              trace_id, state, 0)
        ELSE IF failed
        THEN NeedsHumanReview("LLM call or payload extraction failed: "
                              \o (IF reply.raises THEN reply.message ELSE extracted.message),
                              trace_id, state, 1)
        ELSE Finalize(IF raw_payload = NoneV THEN StubPayload(raw, trace_id) ELSE raw_payload,
                      IF raw_payload = NoneV THEN Str("finalize-requirements-local")
                      ELSE model_name,
                      usage, trace_id, use_llm, state, calls)

----------------------------------------------------------------------------
(* Payloads given to validate_and_normalize: the payload of the validator   *)
(* tests, changed in at most MaxEdits keys, and a few payloads that are no  *)
(* requirements at all.                                                     *)

MaxEdits == 2

LongA == Rep("A", 500)
LongB == Rep("B", 500)
Long200 == Rep("c", 200)

BaseMeta ==
    Dict(("prompt_version" :> Str("v1")) @@ ("model" :> Str("gpt-4o"))
         @@ ("timestamp" :> Str("2025-11-30T08:00:00Z")) @@ ("trace_id" :> Str("trace-happy"))
         @@ ("schema_version" :> Str("v1")) @@ ("repair_attempted" :> Bool(FALSE)))

AC1 ==
    Dict(("id" :> Str("AC-1")) @@ ("description" :> Str("Add creates a task visible in list"))
         @@ ("priority" :> Str("URGENT")) @@ ("type" :> Str("functional")))

FR1 ==
    Dict(("id" :> Str("FR-1")) @@ ("description" :> Str("User can add items via CLI."))
         @@ ("priority" :> Str("high")))

NFR1 ==
    Dict(("id" :> Str("NFR-1")) @@ ("description" :> Str("Startup in under 1 second."))
         @@ ("metric" :> Str("startup_seconds")) @@ ("target" :> Num(1)))

BasePayload ==
    Dict(("title" :> Str("CLI Todo App (in-memory)"))
         @@ ("summary" :> Str("A simple CLI todo app."))
         @@ ("stakeholders" :> List(<<Str("product"), Str("end-user")>>))
         @@ ("acceptance_criteria" :> List(<<AC1>>))
         @@ ("functional_requirements" :> List(<<FR1>>))
         @@ ("non_functional_requirements" :> List(<<NFR1>>))
         @@ ("dependencies" :> List(<<Str("python>=3.11")>>))
         @@ ("constraints" :> List(<<Str("no external network")>>))
         @@ ("clarifications" :> EmptyList)
         @@ ("confidence" :> Flt(9))
         @@ ("meta" :> BaseMeta))

Del(key) == [key |-> key, del |-> TRUE, val |-> NoneV]
Set(key, val) == [key |-> key, del |-> FALSE, val |-> val]

Edits ==
    { Del("summary"), Del("acceptance_criteria"), Del("title"), Del("confidence"),
      Del("meta"), Del("stakeholders"),
      Set("title", Str(LongA)), Set("title", Num(5)),
      Set("summary", Str(LongB)), Set("summary", NoneV),
      Set("id", Str("req-xyz")), Set("id", Str(Rep("i", 300))), Set("id", Str("")),
      Set("stakeholders", List(<<Str("product"), Str("product"), Str("infra")>>)),
      Set("stakeholders", List(<<Str(Long200 \o "x"), Str("s"), Str(Long200 \o "y")>>)),
      Set("stakeholders", List(<<Str("product"), Num(7), Str("product")>>)),
      Set("stakeholders", NoneV),
      Set("dependencies", List(<<Str("postgres"), Str("postgres"), Str("redis")>>)),
      Set("dependencies", List(<<Str("a"), Str("b"), Str("a"), Str("b"), Str("c")>>)),
      Set("constraints", List(<<Str("offline only"), Str("offline only")>>)),
      Set("non_goals", List(<<Str("sync"), Str("No multi-tenant support"), Str("sync")>>)),
      Set("assumptions", List(<<Str("one user"), Str("one user")>>)),
      Set("acceptance_criteria", NoneV),
      Set("acceptance_criteria", EmptyList),
      Set("acceptance_criteria", Num(5)),
      Set("acceptance_criteria", List(<<AC1, Str("AC-2")>>)),
      Set("acceptance_criteria", List(<<Dict(("description" :> Str(LongA)))>>)),
      Set("functional_requirements",
          List(<<Dict(("id" :> Str("FR-1")) @@ ("description" :> Str(LongB))
                      @@ ("rationale" :> Str(LongA)) @@ ("priority" :> NoneV))>>)),
      Set("non_functional_requirements",
          List(<<Dict(("id" :> Str("NFR-1")) @@ ("description" :> Str("fast")))>>)),
      Set("non_functional_requirements",
          List(<<Dict(("id" :> Str("NFR-1")) @@ ("description" :> Str("fast"))
                      @@ ("metric" :> Num(250)) @@ ("target" :> Str(LongA)))>>)),
      Set("non_functional_requirements",
          List(<<Dict(("id" :> Str("NFR-1")) @@ ("description" :> Str("fast"))
                      @@ ("metric" :> List(<<Str(Rep("m", 150)), Str(Rep("n", 150))>>)))>>)),
      Set("clarifications",
          List(<<Dict(("id" :> Str("Q-1")) @@ ("question" :> Str(LongA))
                      @@ ("severity" :> Str("blocking")))>>)),
      Set("contradiction", Dict(("flag" :> Bool(TRUE)) @@ ("issues" :> EmptyList))),
      Set("confidence", Str("high")),
      Set("meta", NoneV),
      Set("meta", Put(BaseMeta, "trace_id", Num(7))),
      Set("meta", Put(BaseMeta, "repair_attempted", Bool(TRUE))),
      Set("meta", Put(BaseMeta, "timestamp", Str(LongA))),
      Set("some", Str("value")) }

RECURSIVE EditSets(_)
EditSets(n) ==
    IF n = 0 THEN {{}}
    ELSE LET prev == EditSets(n - 1)
         IN  prev \cup UNION {{E \cup {e} : e \in {x \in Edits : \A y \in E : y.key # x.key}}
                               : E \in prev}

ApplyEdits(base, E) ==
    LET deleted == {e.key : e \in {x \in E : x.del}}
        written == {e.key : e \in {x \in E : ~x.del}}
    IN  Dict([k \in (DOMAIN base.v \cup written) \ deleted |->
                IF k \in written THEN (CHOOSE e \in E : e.key = k).val ELSE base.v[k]])

Payloads ==
    {ApplyEdits(BasePayload, E) : E \in EditSets(MaxEdits)}
    \cup {EmptyDict, EmptyList, NoneV, Num(5),
          Dict(("title" :> Str("Incomplete"))), Dict(("some" :> Str("value")))}

ValidateAndNormalize ==
    /\ vcall.called = FALSE
    /\ "payload" \in DOMAIN vcall
    /\ LET r == validate_and_normalize(vcall.payload)
       IN  vcall' = [called |-> TRUE, payload |-> vcall.payload,
                     record |-> r.record, errors |-> r.errors]
    /\ UNCHANGED <<pcall, ledger, oracle, run, icall, vpair, dcall, scall, rcall>>

InitValidate ==
    /\ vcall \in {[called |-> FALSE, payload |-> payload] : payload \in Payloads}
    /\ pcall = NoCall
    /\ ledger = EmptyLedger
    /\ oracle = 0
    /\ run = NoCall
    /\ icall = NoCall
    /\ vpair = NoCall
    /\ dcall = NoCall
    /\ scall = NoCall
    /\ rcall = NoCall

NextValidate == ValidateAndNormalize

SpecValidate == InitValidate /\ [][NextValidate]_vars

Accepted == vcall.called /\ vcall.record.t # "none"

TypeOKValidate == vcall.called => vcall.record.t \in {"none", "dict"}

----------------------------------------------------------------------------
(* C6: validate_and_normalize on a payload lacking the key summary or the   *)
(* key acceptance_criteria returns (None, errors), errors holding exactly   *)
(* "<field>: Field required" per missing key, summary first, and no schema  *)
(* error, whatever else is wrong with the payload.                          *)

C6_Lacks(key) == vcall.payload.t = "dict" /\ key \notin DOMAIN vcall.payload.v

C6_MissingRequiredOnly ==
    (vcall.called /\ (C6_Lacks("summary") \/ C6_Lacks("acceptance_criteria"))) =>
        /\ vcall.record = NoneV
        /\ vcall.errors =
              (IF C6_Lacks("summary") THEN <<"summary: Field required">> ELSE <<>>)
              \o (IF C6_Lacks("acceptance_criteria")
                  THEN <<"acceptance_criteria: Field required">> ELSE <<>>)

\* both keys are missing, and so are title, confidence and meta
C6_Witness ==
    /\ vcall.called
    /\ vcall.payload = Dict(("some" :> Str("value")))
    /\ Len(vcall.errors) = 2

(* C7: validate_and_normalize returns either (record, []) with a record or  *)
(* (None, errors) with at least one error, for every input.                 *)

C7_RecordXorErrors ==
    vcall.called =>
        \/ vcall.record # NoneV /\ vcall.errors = <<>>
        \/ vcall.record = NoneV /\ Len(vcall.errors) > 0

\* the defensive path: Requirements.normalize raised on an item that is no mapping
C7_Witness ==
    /\ vcall.called
    /\ vcall.payload = ApplyEdits(BasePayload, {Set("acceptance_criteria", List(<<AC1, Str("AC-2")>>))})
    /\ vcall.record = NoneV
    /\ Len(vcall.errors) = 1

(* C8: in every record returned by validate_and_normalize, each of          *)
(* stakeholders, dependencies, constraints, non_goals and assumptions       *)
(* equals the payload's list with later repeats of an equal string removed. *)

RECURSIVE FirstOccurrences(_)
FirstOccurrences(q) ==
    IF Len(q) = 0 THEN <<>>
    ELSE LET init == SubSeq(q, 1, Len(q) - 1)
             last == q[Len(q)]
         IN  IF \E i \in 1..Len(init) : init[i] = last
             THEN FirstOccurrences(init)
             ELSE Append(FirstOccurrences(init), last)

C8_PayloadList(f) == IF HasKey(vcall.payload, f) THEN vcall.payload.v[f].v ELSE <<>>

C8_Cut(q) ==
    [i \in 1..Len(q) |->
        Str(SubSeq(q[i].v, 1, IF Len(q[i].v) < 200 THEN Len(q[i].v) ELSE 200))]

C8_NoRepeats(q) == \A i, j \in 1..Len(q) : i # j => q[i] # q[j]

C8_Original ==
    Accepted =>
        \A f \in {"stakeholders", "dependencies", "constraints", "non_goals", "assumptions"} :
            /\ vcall.record.v[f].v = FirstOccurrences(C8_PayloadList(f))
            /\ C8_NoRepeats(vcall.record.v[f].v)

(* C8 as amended: stakeholders and dependencies equal the payload's list,   *)
(* every string cut to its first 200 characters, with later repeats of an   *)
(* equal string removed; constraints, non_goals and assumptions equal the   *)
(* payload's list with every string cut to 200 characters, repeats kept.    *)

C8_Amended ==
    Accepted =>
        /\ \A f \in {"stakeholders", "dependencies"} :
              /\ vcall.record.v[f].v = FirstOccurrences(C8_Cut(C8_PayloadList(f)))
              /\ C8_NoRepeats(vcall.record.v[f].v)
        /\ \A f \in {"constraints", "non_goals", "assumptions"} :
              vcall.record.v[f].v = C8_Cut(C8_PayloadList(f))

\* two stakeholders that differ after character 200 only, and a repeated constraint
C8_Witness ==
    /\ Accepted
    /\ vcall.payload = ApplyEdits(BasePayload,
          {Set("stakeholders", List(<<Str(Long200 \o "x"), Str("s"), Str(Long200 \o "y")>>)),
           Set("constraints", List(<<Str("offline only"), Str("offline only")>>))})
    /\ vcall.record.v["stakeholders"].v = <<Str(Long200), Str("s")>>
    /\ Len(vcall.record.v["constraints"].v) = 2

(* C9: an over-long string never makes validate_and_normalize reject: all   *)
(* string values of the payload are cut to 200 characters before            *)
(* validation, so every string field of an accepted record has length at    *)
(* most 200.                                                                *)

RECURSIVE StringsWithin(_, _)
StringsWithin(x, n) ==
    CASE x.t = "str" -> Len(x.v) <= n
      [] x.t = "dict" -> \A k \in DOMAIN x.v : StringsWithin(x.v[k], n)
      [] x.t = "list" -> \A i \in 1..Len(x.v) : StringsWithin(x.v[i], n)
      [] OTHER -> TRUE

C9_Original == Accepted => StringsWithin(vcall.record, 200)

----------------------------------------------------------------------------
(* Runs of run_finalize                                                     *)

\* the usage file holds at most this many earlier calls of the day
MaxEarlierCalls == 3

CleanPayload == Put(Put(BasePayload, "constraints", EmptyList), "id", Str("req-auto-2"))

ContradictoryPayload ==
    Put(Put(BasePayload, "constraints", List(<<Str("No database allowed.")>>)),
        "functional_requirements",
        List(<<Put(FR1, "description", Str("Persist tasks in a Postgres database."))>>))

Clarification1 ==
    Dict(("id" :> Str("Q-1")) @@ ("question" :> Str("Which platforms?"))
         @@ ("severity" :> Str("blocking")))

ClarifyPayload == Put(CleanPayload, "clarifications", List(<<Clarification1>>))

IncompletePayload == Dict(("title" :> Str("Incomplete")))

SomeValuePayload == Dict(("some" :> Str("value")))

\* a payload that brings its own contradiction object: flagged without issues
FlaggedPayload ==
    Put(CleanPayload, "contradiction", Dict(("flag" :> Bool(TRUE)) @@ ("issues" :> EmptyList)))

\* a payload that brings its own contradiction object: issues without the flag
UnflaggedPayload ==
    Put(CleanPayload, "contradiction",
        Dict(("flag" :> Bool(FALSE))
             @@ ("issues" :> List(<<Dict(("field" :> Str("title & summary"))
                                         @@ ("explanation" :> Str("They disagree.")))>>))))

\* a payload whose meta says that a repair was attempted
RepairedBeforePayload ==
    Put(CleanPayload, "meta", Put(CleanPayload.v["meta"], "repair_attempted", Bool(TRUE)))

RunPayloads ==
    {CleanPayload, ContradictoryPayload, ClarifyPayload, IncompletePayload, SomeValuePayload,
     EmptyDict, FlaggedPayload, UnflaggedPayload, RepairedBeforePayload}

Usage5 == Dict(("total_tokens" :> Num(5)))

ToolCall(name, arguments) ==
    Dict(("type" :> Str("function"))
         @@ ("function" :> Dict(("name" :> Str(name)) @@ ("arguments" :> arguments))))

\* a chat completion whose first message carries the tool calls
Completion(tool_calls) ==
    Dict(("choices" :> List(<<Dict(("message" :> Dict(("tool_calls" :> List(tool_calls)))))>>)))

\* a completion in the shape of a single tool_call with bare arguments
SingleToolCall(arguments) ==
    Dict(("choices" :> List(<<Dict(("message" :>
        Dict(("tool_call" :> Dict(("arguments" :> arguments))))))>>)))

ClientResult(response, usage) ==
    Returns(Dict(("response" :> response) @@ ("model" :> Str("gpt-4o-mini"))
                 @@ ("usage" :> usage)))

Answer(arguments, usage) ==
    ClientResult(Completion(<<ToolCall("finalize_requirements", arguments)>>), usage)

\* replies with a usable finalize_requirements tool call
UsableReplies ==
    {Answer(Json(payload), usage) :
        payload \in {CleanPayload, ContradictoryPayload, IncompletePayload, NoneV, EmptyList},
        usage \in {Usage5, NoneV}}
    \cup {Answer(Json(CleanPayload), Dict(("total_tokens" :> Num(0)))),
          ClientResult(Completion(<<ToolCall("other_tool", Json(EmptyDict)),
                                    ToolCall("finalize_requirements", Json(CleanPayload))>>),
                       Usage5)}

\* replies without one
UnusableReplies ==
    {Raises("connection reset"),
     ClientResult(NoneV, Usage5),
     ClientResult(Dict(("choices" :> EmptyList)), Usage5),
     ClientResult(Completion(<<>>), Usage5),
     ClientResult(Dict(("choices" :> List(<<Dict(("message" :> NoneV))>>))), NoneV),
     ClientResult(SingleToolCall(Json(CleanPayload)), Usage5),
     Answer(Str("{not json"), Usage5),
     Answer(CleanPayload, Usage5),
     Answer(NoneV, NoneV),
     ClientResult(Completion(<<ToolCall("other_tool", Json(CleanPayload))>>), Usage5)}

\* the replies of the repair scenarios
RepairReplies ==
    {ClientResult(SingleToolCall(Json(CleanPayload)), Usage5),
     ClientResult(SingleToolCall(Json(SomeValuePayload)), Usage5),
     ClientResult(SingleToolCall(Str("{not json")), Usage5),
     Answer(Json(ContradictoryPayload), NoneV),
     Raises("connection reset")}

ShortText == "  add list delete "
LongText == "Build a simple CLI todo app"
TwoLines == "  Todo app \n with tags"

Scenario(raw_text, trace_id, use_llm, raw_payload, max_input_tokens, daily_quota, reply) ==
    [raw_text |-> raw_text, trace_id |-> trace_id, use_llm |-> use_llm,
     raw_payload |-> raw_payload, max_input_tokens |-> max_input_tokens,
     daily_quota |-> daily_quota, reply |-> reply]

GuardrailScenarios ==
    {Scenario(raw_text, NoneV, use_llm, NoneV, cap, quota, Answer(Json(CleanPayload), Usage5)) :
        raw_text \in {"", ShortText, LongText}, use_llm \in BOOLEAN,
        cap \in {NoneV, Num(0), Num(3)}, quota \in {NoneV, Num(0), Num(10)}}
    \cup
    {Scenario(raw_text, NoneV, TRUE, CleanPayload, cap, quota, Raises("connection reset")) :
        raw_text \in {ShortText, LongText}, cap \in {NoneV, Num(3)}, quota \in {NoneV, Num(10)}}

StructuringScenarios ==
    {Scenario(LongText, trace_id, TRUE, NoneV, NoneV, NoneV, reply) :
        trace_id \in {NoneV, Str("trace-1")}, reply \in UsableReplies \cup UnusableReplies}

PayloadScenarios ==
    {Scenario(LongText, Str("trace-1"), use_llm, raw_payload, NoneV, NoneV, reply) :
        use_llm \in BOOLEAN, raw_payload \in RunPayloads, reply \in RepairReplies}

StubScenarios ==
    {Scenario(raw_text, trace_id, FALSE, NoneV, NoneV, NoneV, Raises("connection reset")) :
        raw_text \in {"", ShortText, LongText, TwoLines}, trace_id \in {NoneV, Str("trace-1")}}

Scenarios == GuardrailScenarios \cup StructuringScenarios \cup PayloadScenarios \cup StubScenarios

\* the usage file left by the earlier calls of the day, each of Usage5
UsageStates == {[tokens |-> 5 * calls, calls |-> calls] : calls \in 0..MaxEarlierCalls}

\* one call of run_finalize with the arguments, the environment and the
\* oracle's scripted reply of run.in, on the usage file as it stands
RunFinalize ==
    /\ run.called = FALSE
    /\ "in" \in DOMAIN run
    /\ LET in == run.in
           r == run_finalize(in.raw_text, in.trace_id, in.use_llm, in.raw_payload,
                             in.max_input_tokens, in.daily_quota, in.reply, ledger)
       IN  /\ run' = [called |-> TRUE, in |-> in, ledger_before |-> ledger,
                      status |-> r.status, requirements |-> r.requirements,
                      errors |-> r.errors, meta |-> r.meta,
                      built |-> r.built, object |-> r.object]
           /\ ledger' = r.ledger
           /\ oracle' = oracle + r.calls
    /\ UNCHANGED <<pcall, vcall, icall, vpair, dcall, scall, rcall>>

Init ==
    /\ pcall = NoCall
    /\ vcall = NoCall
    /\ ledger \in UsageStates
    /\ oracle = 0
    /\ run \in {[called |-> FALSE, in |-> in] : in \in Scenarios}
    /\ icall = NoCall
    /\ vpair = NoCall
    /\ dcall = NoCall
    /\ scall = NoCall
    /\ rcall = NoCall

Next == RunFinalize

Spec == Init /\ [][Next]_vars

RunPayloadGiven == run.called /\ run.in.raw_payload # NoneV

\* validate_and_normalize rejects the raw_payload of the run
RunPayloadRejected ==
    RunPayloadGiven /\ validate_and_normalize(run.in.raw_payload).record = NoneV

\* what attempt_repair returns for the raw_payload of the run when the
\* oracle answers run.in.reply
RunRepair ==
    attempt_repair(run.in.raw_payload, validate_and_normalize(run.in.raw_payload).errors,
                   run.meta.v["trace_id"], run.in.reply)

IsTrue(x) == x = Bool(TRUE)

----------------------------------------------------------------------------
(* C1: when run_finalize is given a raw_payload that validate_and_normalize *)
(* rejects and the oracle's repair reply holds a payload that validates,    *)
(* the result has a status other than needs_human_review, carries the       *)
(* repaired record, and has repair_attempted = true in its meta or in the   *)
(* meta of the record.                                                      *)

C1_Original ==
    (RunPayloadRejected /\ RunRepair.record # NoneV)
        => /\ run.status # "needs_human_review"
           /\ run.requirements # NoneV
           /\ run.requirements.v["summary"] = RunRepair.record.v["summary"]
           /\ \/ IsTrue(Get(run.meta, "repair_attempted"))
              \/ IsTrue(Get(run.requirements.v["meta"], "repair_attempted"))

----------------------------------------------------------------------------
(* C2: when run_finalize is given a raw_payload that validate_and_normalize *)
(* rejects and the oracle's repair reply is unparseable or holds a payload  *)
(* that is still invalid, the result has status needs_human_review and its  *)
(* top-level meta has repair_attempted = true.                              *)

C2_Original ==
    (RunPayloadRejected /\ ~run.in.reply.raises /\ RunRepair.record = NoneV)
        => /\ run.status = "needs_human_review"
           /\ IsTrue(Get(run.meta, "repair_attempted"))

----------------------------------------------------------------------------
(* C3: when run_finalize processes a payload that validates and the record  *)
(* has no contradiction, an empty clarifications list and no                *)
(* auto-assumptions, the returned status is ok.                             *)

C3_Original ==
    (/\ run.called
     /\ run.requirements # NoneV
     /\ Len(run.errors) = 0
     /\ Get(run.requirements, "contradiction") = NoneV
     /\ Get(run.requirements, "clarifications") = EmptyList
     /\ Falsy(Get(run.requirements, "auto_assumptions")))
        => run.status = "ok"

----------------------------------------------------------------------------
(* C4: a run with use_llm = true whose input has more words than a positive *)
(* FINALIZE_MAX_INPUT_TOKENS, or that finds the tokens recorded for today   *)
(* at or above a positive FINALIZE_DAILY_TOKEN_QUOTA, returns status        *)
(* needs_human_review with no requirements and one error naming the         *)
(* refusal; the oracle is not called and the usage file is left as it was.  *)

C4_OverCap ==
    /\ run.in.max_input_tokens # NoneV
    /\ run.in.max_input_tokens.v > 0
    /\ WordCount(run.in.raw_text) > run.in.max_input_tokens.v

C4_OverQuota ==
    /\ run.in.daily_quota # NoneV
    /\ run.in.daily_quota.v > 0
    /\ run.ledger_before.tokens >= run.in.daily_quota.v

C4_Refused ==
    /\ run.status = "needs_human_review"
    /\ run.requirements = NoneV
    /\ Len(run.errors) = 1
    /\ \/ Contains("Input too long for finalize_requirements", run.errors[1])
       \/ Contains("Daily token quota exceeded for finalize_requirements", run.errors[1])
    /\ oracle = 0
    /\ ledger = run.ledger_before

C4_GuardrailsRefuse ==
    (run.called /\ run.in.use_llm /\ (C4_OverCap \/ C4_OverQuota)) => C4_Refused

\* the quota is met exactly, the input is within the cap, and the run is refused
C4_Witness ==
    /\ run.called
    /\ run.in.use_llm
    /\ ~C4_OverCap
    /\ run.in.daily_quota = Num(10)
    /\ run.ledger_before.tokens = 10
    /\ run.in.raw_text = LongText
    /\ C4_Refused
    /\ Contains("used=10 tokens, quota=10.", run.errors[1])

----------------------------------------------------------------------------
(* C5: when the structuring call raises, or its response has no usable      *)
(* finalize_requirements tool call (no choices, no tool_calls, no call of   *)
(* that name, arguments that are no string or no JSON), run_finalize        *)
(* returns a result with status needs_human_review, no requirements and one *)
(* error that describes the failure.                                        *)

C5_StructuringCalled ==
    /\ run.called
    /\ run.in.use_llm
    /\ run.in.raw_payload = NoneV
    /\ oracle = 1

C5_StructuringFailure ==
    (C5_StructuringCalled /\ run.in.reply \in UnusableReplies)
        => /\ run.status = "needs_human_review"
           /\ run.requirements = NoneV
           /\ Len(run.errors) = 1
           /\ Contains("LLM call or payload extraction failed: ", run.errors[1])
           /\ Len(run.errors[1]) > Len("LLM call or payload extraction failed: ")
           /\ run.meta.v["trace_id"] = (IF run.in.trace_id = NoneV THEN Str("local-demo")
                                        ELSE run.in.trace_id)

\* the response holds a message without tool_calls
C5_Witness ==
    /\ C5_StructuringCalled
    /\ run.in.reply = ClientResult(SingleToolCall(Json(CleanPayload)), Usage5)
    /\ run.status = "needs_human_review"
    /\ run.errors = <<"LLM call or payload extraction failed: "
                      \o "Model response contained no tool_calls for finalize_requirements.">>

----------------------------------------------------------------------------
(* Pairs of calls of compute_requirements_id                                *)

MaxIdChanges == 2

\* the payload of test_models_id_generation
IdBase ==
    Dict(("title" :> Str("CLI Todo App (in-memory)"))
         @@ ("summary" :> Str("A simple CLI todo app."))
         @@ ("acceptance_criteria" :> EmptyList)
         @@ ("functional_requirements" :> EmptyList)
         @@ ("confidence" :> Flt(9))
         @@ ("meta" :> Put(BaseMeta, "trace_id", Str("trace-123"))))

IdChanges ==
    { Set("title", Str("CLI \"Todo\" App")),
      Set("confidence", Flt(10)),
      Set("dependencies", List(<<Str("redis")>>)),
      Set("id", Str("req-0123456789")),
      Del("meta") }

RECURSIVE IdChangeSets(_)
IdChangeSets(n) ==
    IF n = 0 THEN {{}}
    ELSE LET prev == IdChangeSets(n - 1)
         IN  prev \cup UNION {{E \cup {e} : e \in {x \in IdChanges : \A y \in E : y.key # x.key}}
                               : E \in prev}

IdDatas == {ApplyEdits(IdBase, E) : E \in IdChangeSets(MaxIdChanges)}

IdTraces == {NoneV, Str(""), Str("trace-123"), Str("trace-xyz")}

IdInputs == {[data |-> d, trace_id |-> tr] : d \in IdDatas, tr \in IdTraces}

\* compute_requirements_id on the two inputs of icall
ComputeRequirementsId ==
    /\ icall.called = FALSE
    /\ "a" \in DOMAIN icall
    /\ icall' = [called |-> TRUE, a |-> icall.a, b |-> icall.b,
                 id_a |-> compute_requirements_id(icall.a.data, icall.a.trace_id),
                 id_b |-> compute_requirements_id(icall.b.data, icall.b.trace_id)]
    /\ UNCHANGED <<pcall, vcall, ledger, oracle, run, vpair, dcall, scall, rcall>>

InitId ==
    /\ icall \in {[called |-> FALSE, a |-> a, b |-> b] : a \in IdInputs, b \in IdInputs}
    /\ pcall = NoCall
    /\ vcall = NoCall
    /\ ledger = EmptyLedger
    /\ oracle = 0
    /\ run = NoCall
    /\ vpair = NoCall
    /\ dcall = NoCall
    /\ scall = NoCall
    /\ rcall = NoCall

NextId == ComputeRequirementsId

SpecId == InitId /\ [][NextId]_vars

\* the data of the two calls agree on every key other than id and meta
C11_SameContent == Trimmed(icall.a.data) = Trimmed(icall.b.data)

\* the trace id as the digest sees it: an empty trace id counts as none
C11_Trace(trace_id) == IF trace_id = Str("") THEN NoneV ELSE trace_id

(* C11: compute_requirements_id is a pure function of the data without id   *)
(* and meta and of the trace id: equal data and trace give the same id; for *)
(* fixed data any two different trace ids, absent against present included, *)
(* give different ids; for a fixed trace id a change of any data field      *)
(* other than id and meta gives a different id.                             *)
C11_Original ==
    icall.called =>
        /\ (C11_SameContent /\ icall.a.trace_id = icall.b.trace_id) => icall.id_a = icall.id_b
        /\ (C11_SameContent /\ icall.a.trace_id # icall.b.trace_id) => icall.id_a # icall.id_b
        /\ (~C11_SameContent /\ icall.a.trace_id = icall.b.trace_id) => icall.id_a # icall.id_b

(* C11, amended: as above, where the empty trace id counts as an absent     *)
(* one: None and "" give the same id, and two trace ids give different ids  *)
(* when they still differ after "" is read as None.                         *)
C11_Amended ==
    icall.called =>
        /\ (C11_SameContent /\ C11_Trace(icall.a.trace_id) = C11_Trace(icall.b.trace_id))
               => icall.id_a = icall.id_b
        /\ (C11_SameContent /\ C11_Trace(icall.a.trace_id) # C11_Trace(icall.b.trace_id))
               => icall.id_a # icall.id_b
        /\ (~C11_SameContent /\ C11_Trace(icall.a.trace_id) = C11_Trace(icall.b.trace_id))
               => icall.id_a # icall.id_b

\* the test's payload with and without a trace id, ids differ; the payload's
\* own meta.trace_id plays no part
C11_Witness ==
    /\ icall.called
    /\ icall.a = [data |-> IdBase, trace_id |-> Str("trace-123")]
    /\ icall.b = [data |-> ApplyEdits(IdBase, {Del("meta")}), trace_id |-> NoneV]
    /\ icall.id_a # icall.id_b
    /\ icall.id_a.v = HexPlaceholder

----------------------------------------------------------------------------
(* Pairs of calls of validate_and_normalize                                 *)

MaxPairEdits == 2

PairEdits ==
    { Set("id", Str("req-xyz")),
      Set("id", Str("")),
      Del("clarifications"),
      Set("non_goals", EmptyList),
      Set("some", Str("value")),
      Set("title", Str("CLI Todo App")),
      Set("acceptance_criteria", List(<<Put(AC1, "priority", Str("high"))>>)),
      Set("meta", Put(BaseMeta, "trace_id", Str("trace-xyz"))),
      Del("summary") }

RECURSIVE PairEditSets(_)
PairEditSets(n) ==
    IF n = 0 THEN {{}}
    ELSE LET prev == PairEditSets(n - 1)
         IN  prev \cup UNION {{E \cup {e} : e \in {x \in PairEdits : \A y \in E : y.key # x.key}}
                               : E \in prev}

PairPayloads == {ApplyEdits(BasePayload, E) : E \in PairEditSets(MaxPairEdits)}

\* validate_and_normalize on the two payloads of vpair
ValidatePair ==
    /\ vpair.called = FALSE
    /\ "a" \in DOMAIN vpair
    /\ vpair' = [called |-> TRUE, a |-> vpair.a, b |-> vpair.b,
                 record_a |-> validate_and_normalize(vpair.a).record,
                 record_b |-> validate_and_normalize(vpair.b).record]
    /\ UNCHANGED <<pcall, vcall, ledger, oracle, run, icall, dcall, scall, rcall>>

InitPair ==
    /\ vpair \in {[called |-> FALSE, a |-> a, b |-> b] : a \in PairPayloads, b \in PairPayloads}
    /\ pcall = NoCall
    /\ vcall = NoCall
    /\ ledger = EmptyLedger
    /\ oracle = 0
    /\ run = NoCall
    /\ icall = NoCall
    /\ dcall = NoCall
    /\ scall = NoCall
    /\ rcall = NoCall

NextPair == ValidatePair

SpecPair == InitPair /\ [][NextPair]_vars

BothAccepted == vpair.called /\ vpair.record_a.t = "dict" /\ vpair.record_b.t = "dict"

\* the two records agree on every field other than id and meta, and on the
\* trace id of their meta
C12_SameContentAndTrace ==
    /\ Trimmed(vpair.record_a) = Trimmed(vpair.record_b)
    /\ Get(vpair.record_a.v["meta"], "trace_id") = Get(vpair.record_b.v["meta"], "trace_id")

(* C12: the id of a record returned by validate_and_normalize is determined *)
(* by the record's content (every field except id and meta) and its trace   *)
(* id: two accepted records with equal content and equal trace id have      *)
(* equal ids, whatever id or optional keys the raw payloads carried.        *)
C12_Original ==
    (BothAccepted /\ C12_SameContentAndTrace) => vpair.record_a.v["id"] = vpair.record_b.v["id"]

\* neither payload gives an id, the payloads differ only in an optional key
\* that holds its default, the records are equal but for their ids
C12_OptionalKey ==
    /\ BothAccepted
    /\ vpair.a = BasePayload
    /\ vpair.b = ApplyEdits(BasePayload, {Del("clarifications")})
    /\ C12_SameContentAndTrace
    /\ vpair.record_a.v["id"] # vpair.record_b.v["id"]

----------------------------------------------------------------------------
\* the contradiction of the record of the run, None when absent
RunContradiction == Get(run.requirements, "contradiction")

RunCarriesRecord == run.called /\ run.requirements # NoneV

(* C13: in every result of run_finalize that carries a record, whatever the *)
(* payload (one that already holds a contradiction object included), the    *)
(* record's contradiction is absent, or its flag is true exactly when its   *)
(* issues are non-empty; flag true with no issues never appears.            *)
C13_Original ==
    RunCarriesRecord =>
        \/ RunContradiction = NoneV
        \/ (RunContradiction.v["flag"] = Bool(TRUE)) <=> (Len(RunContradiction.v["issues"].v) > 0)

\* the payload's own contradiction object survives when no rule fires
C13_FlagWithoutIssues ==
    /\ RunCarriesRecord
    /\ run.in.raw_payload = FlaggedPayload
    /\ RunContradiction # NoneV
    /\ RunContradiction.v["flag"] = Bool(TRUE)
    /\ RunContradiction.v["issues"] = EmptyList

----------------------------------------------------------------------------
(* Calls of detect_contradictions                                           *)

MaxPlaced == 2

FR(description, rationale) ==
    Dict(("id" :> Str("FR-1")) @@ ("description" :> description)
         @@ ("rationale" :> rationale) @@ ("priority" :> Str("medium")))

NFR(description) ==
    Dict(("id" :> Str("NFR-1")) @@ ("description" :> description)
         @@ ("metric" :> NoneV) @@ ("target" :> NoneV))

\* a record on which no rule fires
QuietRecord ==
    Dict(("id" :> Str("req-quiet"))
         @@ ("title" :> Str("Todo"))
         @@ ("summary" :> Str("A tool."))
         @@ ("stakeholders" :> EmptyList)
         @@ ("non_goals" :> List(<<Str("GUI")>>))
         @@ ("assumptions" :> EmptyList)
         @@ ("acceptance_criteria" :> EmptyList)
         @@ ("functional_requirements" :>
                List(<<FR(Str("Add"), NoneV), FR(Str("List"), NoneV)>>))
         @@ ("non_functional_requirements" :> List(<<NFR(Str("Fast"))>>))
         @@ ("dependencies" :> List(<<Str("Python")>>))
         @@ ("constraints" :> List(<<Str("Local")>>))
         @@ ("clarifications" :> EmptyList)
         @@ ("contradiction" :> NoneV)
         @@ ("confidence" :> Flt(9))
         @@ ("meta" :> BaseMeta))

TopSlot(key) == [key |-> key, idx |-> 0, sub |-> ""]
ItemSlot(key, idx) == [key |-> key, idx |-> idx, sub |-> ""]
SubSlot(key, idx, sub) == [key |-> key, idx |-> idx, sub |-> sub]

Slots ==
    { TopSlot("title"), TopSlot("summary"),
      ItemSlot("non_goals", 1), ItemSlot("dependencies", 1), ItemSlot("constraints", 1),
      SubSlot("functional_requirements", 1, "description"),
      SubSlot("functional_requirements", 1, "rationale"),
      SubSlot("functional_requirements", 2, "description"),
      SubSlot("non_functional_requirements", 1, "description") }

\* Each of the first four texts matches one side of two rules, so that any
\* two of them fire one rule or none; the fifth matches both sides of the
\* first rule; the empty text is no source at all.
Phrases ==
    { "Stateless single-user", "Sessions via external API", "Offline only, no DB",
      "Persistent, multi-tenant", "Stateless sessions", "" }

\* the text that the placements P put in slot (key, idx, sub), else text
Placed(P, key, idx, sub, text) ==
    IF \E x \in P : x.slot = SubSlot(key, idx, sub)
    THEN Str((CHOOSE x \in P : x.slot = SubSlot(key, idx, sub)).text)
    ELSE text

PlacedItems(P, key, items) ==
    List([i \in 1..Len(items) |->
            IF items[i].t = "str" THEN Placed(P, key, i, "", items[i])
            ELSE [items[i] EXCEPT !.v = [f \in DOMAIN items[i].v |->
                                            Placed(P, key, i, f, items[i].v[f])]]])

\* record req with the texts of the placements P in their slots
Place(req, P) ==
    Dict([key \in DOMAIN req.v |->
            IF req.v[key].t = "list" THEN PlacedItems(P, key, req.v[key].v)
            ELSE Placed(P, key, 0, "", req.v[key])])

RECURSIVE Placements(_)
Placements(n) ==
    IF n = 0 THEN {{}}
    ELSE LET prev == Placements(n - 1)
         IN  prev \cup UNION {{P \cup {[slot |-> slot, text |-> text]} :
                                    slot \in Slots \ {x.slot : x \in P}, text \in Phrases}
                               : P \in prev}

\* detect_contradictions on the record of dcall
DetectContradictions ==
    /\ dcall.called = FALSE
    /\ "requirements" \in DOMAIN dcall
    /\ dcall' = [called |-> TRUE, requirements |-> dcall.requirements,
                 result |-> detect_contradictions(dcall.requirements)]
    /\ UNCHANGED <<pcall, vcall, ledger, oracle, run, icall, vpair, scall, rcall>>

InitDetect ==
    /\ dcall \in {[called |-> FALSE, requirements |-> Place(QuietRecord, P)] :
                       P \in Placements(MaxPlaced)}
    /\ pcall = NoCall
    /\ vcall = NoCall
    /\ ledger = EmptyLedger
    /\ oracle = 0
    /\ run = NoCall
    /\ icall = NoCall
    /\ vpair = NoCall
    /\ scall = NoCall
    /\ rcall = NoCall

NextDetect == DetectContradictions

SpecDetect == InitDetect /\ [][NextDetect]_vars

----------------------------------------------------------------------------
\* the text of a field: "" for None
TextOf(x) == IF x.t = "str" THEN x.v ELSE ""

ItemFields(name, items) ==
    [i \in 1..Len(items) |-> [field |-> Indexed(name, i - 1), text |-> TextOf(items[i])]]

\* description then rationale, one functional requirement after the other
FunctionalFields(items) ==
    [k \in 1..(2 * Len(items)) |->
        LET i == (k + 1) \div 2
            name == Indexed("functional_requirements", i - 1)
        IN  IF k % 2 = 1
            THEN [field |-> name \o ".description", text |-> TextOf(items[i].v["description"])]
            ELSE [field |-> name \o ".rationale", text |-> TextOf(items[i].v["rationale"])]]

NonFunctionalFields(items) ==
    [i \in 1..Len(items) |->
        [field |-> Indexed("non_functional_requirements", i - 1) \o ".description",
         text |-> TextOf(items[i].v["description"])]]

\* the text fields of a record in the order of collection, the empty ones left out
CollectedFields(req) ==
    SelectSeq(<<[field |-> "title", text |-> TextOf(req.v["title"])],
                [field |-> "summary", text |-> TextOf(req.v["summary"])]>>
              \o ItemFields("non_goals", req.v["non_goals"].v)
              \o ItemFields("dependencies", req.v["dependencies"].v)
              \o ItemFields("constraints", req.v["constraints"].v)
              \o FunctionalFields(req.v["functional_requirements"].v)
              \o NonFunctionalFields(req.v["non_functional_requirements"].v),
              LAMBDA f : f.text # "")

MatchesStateless(text) == InSeq("stateless", tokenize(text))
MatchesSession(text) == InSeq("session", tokenize(text))
MatchesNoDb(text) == has_no_db(normalize_text(text))
MatchesPersistence(text) == has_persistence(normalize_text(text))
MatchesSingleUser(text) == has_single_user(normalize_text(text))
MatchesMultiTenant(text) == has_multi_tenant(normalize_text(text))
MatchesNoExternal(text) == has_no_external_network(normalize_text(text))
MatchesExternalApi(text) == has_external_api(normalize_text(text))

\* the issue a binary rule owes: none unless both sides are matched, else one
\* naming the earliest field of either side
Owed(fields, A(_), B(_), explanation) ==
    LET a == SelectSeq(fields, LAMBDA f : A(f.text))
        b == SelectSeq(fields, LAMBDA f : B(f.text))
    IN  IF Len(a) = 0 \/ Len(b) = 0 THEN <<>>
        ELSE <<ContradictionIssue(a[1].field \o " & " \o b[1].field, explanation)>>

OwedStateless(fields) == Owed(fields, MatchesStateless, MatchesSession, StatelessExplanation)
OwedNoDb(fields) == Owed(fields, MatchesNoDb, MatchesPersistence, NoDbExplanation)
OwedSingleUser(fields) ==
    Owed(fields, MatchesSingleUser, MatchesMultiTenant, SingleUserExplanation)
OwedNoExternal(fields) ==
    Owed(fields, MatchesNoExternal, MatchesExternalApi, NoExternalExplanation)

\* the issues of the result of dcall, none for None
DetectedIssues == IF dcall.result = NoneV THEN <<>> ELSE dcall.result.v["issues"].v

\* the issues of the result that carry the given explanation
DetectedWith(explanation) ==
    SelectSeq(DetectedIssues, LAMBDA issue : issue.v["explanation"] = Str(explanation))

C14_Holds(fields) ==
    /\ DetectedWith(StatelessExplanation) = OwedStateless(fields)
    /\ DetectedWith(NoDbExplanation) = OwedNoDb(fields)
    /\ DetectedWith(SingleUserExplanation) = OwedSingleUser(fields)
    /\ DetectedWith(NoExternalExplanation) = OwedNoExternal(fields)

(* C14: each of the four binary rules yields exactly one issue when both of *)
(* its sides are matched by at least one collected source and none          *)
(* otherwise; the issue's field is "<A> & <B>" with A and B the earliest    *)
(* matching sources in collection order: title, summary, non_goals,         *)
(* dependencies, constraints, the functional requirements' descriptions and *)
(* rationales, the non-functional requirements' descriptions.               *)
C14_BinaryRules == dcall.called => C14_Holds(CollectedFields(dcall.requirements))

\* two sources match the stateless side, the later one also the session side:
\* the issue names the earlier one for stateless
C14_Witness ==
    /\ dcall.called
    /\ dcall.requirements =
          Place(QuietRecord,
                {[slot |-> ItemSlot("constraints", 1), text |-> "Stateless single-user"],
                 [slot |-> SubSlot("functional_requirements", 1, "rationale"),
                  text |-> "Stateless sessions"]})
    /\ DetectedIssues =
          <<ContradictionIssue("constraints[0] & functional_requirements[0].rationale",
                               StatelessExplanation)>>

\* the issues the non-goal rule owes: one per pair (i, j) of a non-goal and a
\* dependency of equal, non-empty normalized text, by i and then by j
OwedPairs(req) ==
    LET ng == req.v["non_goals"].v
        deps == req.v["dependencies"].v
        n == Len(deps)
        cells == [k \in 1..(Len(ng) * n) |-> [i |-> ((k - 1) \div n) + 1, j |-> ((k - 1) % n) + 1]]
        equal == SelectSeq(cells, LAMBDA c :
                    /\ normalize_text(TextOf(ng[c.i])) # ""
                    /\ normalize_text(TextOf(ng[c.i])) = normalize_text(TextOf(deps[c.j])))
    IN  [k \in 1..Len(equal) |->
            ContradictionIssue(Indexed("non_goals", equal[k].i - 1) \o " & "
                               \o Indexed("dependencies", equal[k].j - 1),
                               NonGoalExplanation)]

(* C19: detect_contradictions returns the issues of the five rules          *)
(* concatenated in the fixed order stateless/session, no-db/persistence,    *)
(* single-user/multi-tenant, no-external/external-api, non-goal/dependency; *)
(* what a rule contributes depends on the record alone, not on the other    *)
(* rules; the result is None exactly when no rule yields an issue.          *)
C19_Holds(fields, pairs) ==
    LET owed == OwedStateless(fields) \o OwedNoDb(fields) \o OwedSingleUser(fields)
                \o OwedNoExternal(fields) \o pairs
    IN  /\ dcall.result = NoneV <=> Len(owed) = 0
        /\ dcall.result # NoneV =>
              dcall.result = Dict(("flag" :> Bool(TRUE)) @@ ("issues" :> List(owed)))

C19_NoneReached == dcall.called /\ dcall.requirements = QuietRecord /\ dcall.result = NoneV

----------------------------------------------------------------------------
(* Calls of detect_contradictions on records whose non_goals and            *)
(* dependencies vary                                                        *)

MaxItems == 2

ItemTexts == {"Redis", "redis!", "Kafka", "", "!!!", "No database"}

RECURSIVE ItemLists(_)
ItemLists(n) ==
    IF n = 0 THEN {<<>>}
    ELSE LET prev == ItemLists(n - 1)
         IN  prev \cup {Append(q, Str(text)) : q \in prev, text \in ItemTexts}

WithItems(non_goals, dependencies) ==
    Put(Put(QuietRecord, "non_goals", List(non_goals)), "dependencies", List(dependencies))

InitItems ==
    /\ dcall \in {[called |-> FALSE, requirements |-> WithItems(ng, deps)] :
                       ng \in ItemLists(MaxItems), deps \in ItemLists(MaxItems)}
    /\ pcall = NoCall
    /\ vcall = NoCall
    /\ ledger = EmptyLedger
    /\ oracle = 0
    /\ run = NoCall
    /\ icall = NoCall
    /\ vpair = NoCall
    /\ scall = NoCall
    /\ rcall = NoCall

SpecItems == InitItems /\ [][NextDetect]_vars

(* C20: the non-goal/dependency rule reports exactly one issue per pair     *)
(* (i, j) of a non-goal and a dependency of equal, non-empty normalized     *)
(* text and none otherwise, ordered by i and then by j, with the field      *)
(* "non_goals[i] & dependencies[j]", i and j the positions in the record's  *)
(* lists.                                                                   *)
C20_NonGoalPairs ==
    dcall.called => DetectedWith(NonGoalExplanation) = OwedPairs(dcall.requirements)

\* two pairs match crosswise: (0, 1) is reported before (1, 0)
C20_Witness ==
    /\ dcall.called
    /\ dcall.requirements = WithItems(<<Str("Redis"), Str("Kafka")>>,
                                      <<Str("Kafka"), Str("redis!")>>)
    /\ DetectedIssues =
          <<ContradictionIssue("non_goals[0] & dependencies[1]", NonGoalExplanation),
            ContradictionIssue("non_goals[1] & dependencies[0]", NonGoalExplanation)>>

----------------------------------------------------------------------------
(* contradiction.py: the environment of the semantic check                  *)

\* _get_env_bool: raw is the variable's text, None when it is unset
get_env_bool(raw, default) ==
    IF raw = NoneV THEN default
    ELSE LET text == PyLower(PyStrip(raw.v))
         IN  IF text \in {"1", "true", "yes", "on"} THEN TRUE
             ELSE IF text \in {"0", "false", "no", "off"} THEN FALSE
             ELSE default

DigitChars == {CharAt(Digits, i) : i \in 1..Len(Digits)}

AllDigits(s) == Len(s) > 0 /\ \A i \in 1..Len(s) : CharAt(s, i) \in DigitChars

DigitValue(c) == (CHOOSE i \in 1..Len(Digits) : CharAt(Digits, i) = c) - 1

RECURSIVE DigitsValue(_)
DigitsValue(s) ==
    IF Len(s) = 0 THEN 0
    ELSE 10 * DigitsValue(SubSeq(s, 1, Len(s) - 1)) + DigitValue(CharAt(s, Len(s)))

\* int(raw) of a text: an optional sign and decimal digits, white space around
PyInt(raw) ==
    LET text == PyStrip(raw)
        signed == Len(text) > 0 /\ CharAt(text, 1) \in {"-", "+"}
        body == IF signed THEN SubSeq(text, 2, Len(text)) ELSE text
    IN  IF ~AllDigits(body) THEN [ok |-> FALSE, val |-> 0]
        ELSE [ok |-> TRUE,
              val |-> IF signed /\ CharAt(text, 1) = "-" THEN 0 - DigitsValue(body)
                      ELSE DigitsValue(body)]

\* _get_env_int: None for an unset or empty variable and for a ValueError
get_env_int(raw) ==
    IF Falsy(raw) THEN NoneV
    ELSE IF PyInt(raw.v).ok THEN Num(PyInt(raw.v).val) ELSE NoneV

\* Dollar amounts are counted in units of 1e-8 USD, the precision that
\* round(cost, 8) keeps.
UsdUnit == 100000000

\* str.find and str.rfind of one character, counted from 1; 0 when absent
FirstIndex(text, c) ==
    IF \E i \in 1..Len(text) : CharAt(text, i) = c
    THEN CHOOSE i \in 1..Len(text) : CharAt(text, i) = c /\ \A j \in 1..(i - 1) : CharAt(text, j) # c
    ELSE 0

LastIndex(text, c) ==
    IF \E i \in 1..Len(text) : CharAt(text, i) = c
    THEN CHOOSE i \in 1..Len(text) :
            CharAt(text, i) = c /\ \A j \in (i + 1)..Len(text) : CharAt(text, j) # c
    ELSE 0

\* float(raw) of a plain decimal text with at most eight decimals, in units
PyFloat(raw) ==
    LET text == PyStrip(raw)
        dot == FirstIndex(text, ".")
        whole == IF dot = 0 THEN text ELSE SubSeq(text, 1, dot - 1)
        frac == IF dot = 0 THEN "" ELSE SubSeq(text, dot + 1, Len(text))
    IN  IF AllDigits(whole) /\ Len(frac) <= 8 /\ (frac = "" \/ AllDigits(frac))
        THEN [ok |-> TRUE,
              val |-> DigitsValue(whole) * UsdUnit + DigitsValue(frac \o Rep("0", 8 - Len(frac)))]
        ELSE [ok |-> FALSE, val |-> 0]

\* _get_env_float: None for an unset or empty variable and for a ValueError
get_env_float(raw) ==
    IF Falsy(raw) THEN NoneV
    ELSE IF PyFloat(raw.v).ok THEN [t |-> "usd", v |-> PyFloat(raw.v).val] ELSE NoneV

\* int(usage.get(key) or 0), the counters being integers or None
UsageInt(usage, key) == IF Falsy(Get(usage, key)) THEN 0 ELSE Get(usage, key).v

\* prompt_tokens * (input_price / 1_000_000.0) + completion_tokens *
\* (output_price / 1_000_000.0), rounded to eight decimals, half to even
CostUnits(prompt_tokens, input_price, completion_tokens, output_price) ==
    LET parts == prompt_tokens * (input_price % 1000000)
                 + completion_tokens * (output_price % 1000000)
        q == prompt_tokens * (input_price \div 1000000)
             + completion_tokens * (output_price \div 1000000) + (parts \div 1000000)
        rem == parts % 1000000
    IN  IF 2 * rem > 1000000 \/ (2 * rem = 1000000 /\ q % 2 = 1) THEN q + 1 ELSE q

PriceOf(raw) == IF get_env_float(raw) = NoneV THEN 0 ELSE get_env_float(raw).v

\* _estimate_cost_usd: None, or the cost in units
estimate_cost_usd(usage, env) ==
    IF Falsy(usage) THEN NoneV
    ELSE IF UsageInt(usage, "prompt_tokens") = 0 /\ UsageInt(usage, "completion_tokens") = 0
    THEN NoneV
    ELSE IF PriceOf(env.input_price) <= 0 /\ PriceOf(env.output_price) <= 0 THEN NoneV
    ELSE [t |-> "usd",
          v |-> CostUnits(UsageInt(usage, "prompt_tokens"), PriceOf(env.input_price),
                          UsageInt(usage, "completion_tokens"), PriceOf(env.output_price))]

UsageKeys == <<"prompt_tokens", "completion_tokens", "total_tokens">>

\* a variant that keeps the counters of the latest call instead of adding
merge_usage_latest(base, extra) ==
    IF extra = NoneV THEN base ELSE extra

\* _merge_usage
merge_usage(base, extra) ==
    IF extra = NoneV THEN base
    ELSE IF base = NoneV THEN extra
    ELSE Dict([k \in DOMAIN base.v \cup {"prompt_tokens", "completion_tokens", "total_tokens"} |->
                 IF InSeq(k, UsageKeys) THEN Num(UsageInt(base, k) + UsageInt(extra, k))
                 ELSE base.v[k]])

----------------------------------------------------------------------------
(* contradiction.py: reading the oracle's response                          *)

\* A text is a Str (plain text that holds no JSON and no square bracket), a
\* Json(x) (the compact JSON text of x) or a Mixed of such parts in a row.
Mixed(parts) == [t |-> "mixed", v |-> parts]

IsText(x) == x.t \in {"str", "json", "mixed"}

TextParts(x) == IF x.t = "mixed" THEN x.v ELSE <<x>>

RECURSIVE Render(_)
Render(parts) ==
    IF Len(parts) = 0 THEN ""
    ELSE (IF parts[1].t = "json" THEN JsonDumps(parts[1].v) ELSE parts[1].v)
         \o Render(Tail(parts))

RECURSIVE SubValues(_)
SubValues(x) ==
    CASE x.t = "list" -> {x} \cup UNION {SubValues(x.v[i]) : i \in 1..Len(x.v)}
      [] x.t = "dict" -> {x} \cup UNION {SubValues(x.v[k]) : k \in DOMAIN x.v}
      [] OTHER -> {x}

\* every value whose JSON text occurs in the parts
JsonValues(parts) ==
    UNION {SubValues(parts[i].v) : i \in {j \in 1..Len(parts) : parts[j].t = "json"}}

\* json.loads(text): the value whose JSON text the text is, else a JSONDecodeError
json_loads(text, parts) ==
    IF \E x \in JsonValues(parts) : JsonDumps(x) = text
    THEN [ok |-> TRUE, val |-> CHOOSE x \in JsonValues(parts) : JsonDumps(x) = text]
    ELSE [ok |-> FALSE, val |-> NoneV]

DictItems(q) == SelectSeq(q, LAMBDA item : item.t = "dict")

SemanticResults(results) == [raised |-> FALSE, error |-> "", results |-> results]

JSONDecodeError == "Expecting value: line 1 column 1 (char 0)"

SemanticValueError ==
    [raised |-> TRUE,
     error |-> "Failed to parse semantic contradiction JSON response: " \o JSONDecodeError,
     results |-> <<>>]

\* the text of one entry of a content list
PartText(part) ==
    IF part.t # "dict" THEN <<>>
    ELSE IF ~Falsy(Get(part, "text"))
         THEN (IF IsText(part.v["text"]) THEN TextParts(part.v["text"]) ELSE <<>>)
    ELSE IF ~Falsy(Get(part, "value"))
         THEN (IF IsText(part.v["value"]) THEN TextParts(part.v["value"]) ELSE <<>>)
    ELSE <<>>

RECURSIVE ContentParts(_)
ContentParts(content) ==
    IF Len(content) = 0 THEN <<>> ELSE PartText(content[1]) \o ContentParts(Tail(content))

\* the fallback: the span from the first "[" to the last "]"
ParseSnippet(text, parts, first_ok) ==
    LET start == FirstIndex(text, "[")
        end == LastIndex(text, "]")
    IN  IF start # 0 /\ end # 0 /\ end > start
        THEN (IF /\ json_loads(SubSeq(text, start, end), parts).ok
                 /\ json_loads(SubSeq(text, start, end), parts).val.t = "list"
              THEN SemanticResults(DictItems(json_loads(SubSeq(text, start, end), parts).val.v))
              ELSE SemanticValueError)
        ELSE IF first_ok THEN SemanticResults(<<>>) ELSE SemanticValueError

\* the first attempt: the whole text as JSON
ParseLoaded(text, parts, first) ==
    IF first.ok /\ first.val.t = "list" THEN SemanticResults(DictItems(first.val.v))
    ELSE IF first.ok /\ first.val.t = "dict" /\ Get(first.val, "results").t = "list"
    THEN SemanticResults(DictItems(first.val.v["results"].v))
    ELSE ParseSnippet(text, parts, first.ok)

ParseText(text, parts) ==
    IF text = "" THEN SemanticResults(<<>>) ELSE ParseLoaded(text, parts, json_loads(text, parts))

ParseContent(content) ==
    IF IsText(content) THEN ParseText(PyStrip(Render(TextParts(content))), TextParts(content))
    ELSE IF content.t = "list"
    THEN ParseText(PyStrip(Render(ContentParts(content.v))), ContentParts(content.v))
    ELSE SemanticResults(<<>>)

\* _extract_semantic_results; the first choice, when there is one, is a dict
\* whose message is a dict or absent
extract_semantic_results(raw_response) ==
    IF raw_response.t = "list" THEN SemanticResults(DictItems(raw_response.v))
    ELSE IF raw_response.t # "dict" THEN SemanticResults(<<>>)
    ELSE IF Falsy(Get(raw_response, "choices")) THEN SemanticResults(<<>>)
    ELSE ParseContent(Get(OrEmptyDict(Get(raw_response.v["choices"].v[1], "message")), "content"))

----------------------------------------------------------------------------
(* contradiction.py: semantic_check                                         *)

DefaultReason == "Semantic contradiction between A and B."

\* pair_index.get(pair_id): the last pair of the batch filed under that text
PairFor(batch, pair_id) ==
    LET hits == {i \in 1..Len(batch) : PyStr(Get(batch[i], "pair_id")) = pair_id}
    IN  IF hits = {} THEN NoneV ELSE batch[CHOOSE i \in hits : \A j \in hits : j <= i]

FieldOr(pair, key, default) == IF HasKey(pair, key) THEN PyStr(pair.v[key]) ELSE default

\* the issue of one verdict, if it confirms a pair of the batch
VerdictIssue(item, batch) ==
    LET pair_id == IF HasKey(item, "pair_id") THEN PyStr(item.v["pair_id"]) ELSE ""
        pair == PairFor(batch, pair_id)
    IN  IF Falsy(Get(item, "conflict")) THEN <<>>
        ELSE IF Falsy(pair) THEN <<>>
        ELSE <<ContradictionIssue(
                  PyStrip(FieldOr(pair, "field_a", "A") \o " & " \o FieldOr(pair, "field_b", "B")),
                  PyStr(IF Falsy(Get(item, "reason")) THEN Str(DefaultReason)
                        ELSE item.v["reason"]))>>

RECURSIVE BatchIssues(_, _)
BatchIssues(results, batch) ==
    IF Len(results) = 0 THEN <<>>
    ELSE VerdictIssue(results[1], batch) \o BatchIssues(Tail(results), batch)

\* the locals of semantic_check before the first batch; calls holds the batches
\* handed to the oracle so far, in the order of the calls
NoBatches ==
    [confirmed_issues |-> <<>>, aggregated_usage |-> NoneV, model_name |-> NoneV,
     total_pairs_checked |-> 0, confirmed_count |-> 0, raw_excerpt |-> NoneV, calls |-> <<>>]

Continues(locals) == [raised |-> FALSE, error |-> "", locals |-> locals]
Threw(locals, error) == [raised |-> TRUE, error |-> error, locals |-> locals]

\* str(raw_response)[:400]
Excerpt(raw_response) ==
    Str(SubSeq(PyStr(raw_response), 1,
               IF Len(PyStr(raw_response)) < 400 THEN Len(PyStr(raw_response)) ELSE 400))

\* the locals once the oracle has answered: model, usage and excerpt
Answered(locals, result) ==
    [locals EXCEPT
        !.model_name = IF locals.model_name = NoneV THEN Get(result, "model") ELSE @,
        !.aggregated_usage = IF Get(result, "usage").t = "dict"
                             THEN merge_usage(@, result.v["usage"]) ELSE @,
        !.raw_excerpt = IF locals.raw_excerpt = NoneV THEN Excerpt(Get(result, "response"))
                        ELSE @]

\* the locals once the verdicts of the batch are read
Judged(locals, batch, extracted) ==
    IF extracted.raised THEN Threw(locals, extracted.error)
    ELSE Continues([locals EXCEPT
            !.confirmed_issues = @ \o BatchIssues(extracted.results, batch),
            !.confirmed_count = @ + Len(BatchIssues(extracted.results, batch))])

Replied(locals, batch, reply) ==
    IF reply.raises THEN Threw(locals, reply.message)
    ELSE Judged(Answered(locals, reply.result), batch,
                extract_semantic_results(Get(reply.result, "response")))

\* one turn of the loop: count the batch, call the oracle, read its answer
Batch(locals, batch, reply) ==
    Replied([locals EXCEPT !.total_pairs_checked = @ + Len(batch), !.calls = Append(@, batch)],
            batch, reply)

Min(a, b) == IF a < b THEN a ELSE b

\* for offset in range(0, len(suspicious_pairs), max_pairs), max_pairs > 0;
\* script holds the oracle's answers in the order of the calls
RECURSIVE Batches(_, _, _, _, _)
Batches(outcome, suspicious_pairs, offset, max_pairs, script) ==
    IF outcome.raised \/ offset >= Len(suspicious_pairs) THEN outcome
    ELSE Batches(Batch(outcome.locals,
                       SubSeq(suspicious_pairs, offset + 1,
                              Min(offset + max_pairs, Len(suspicious_pairs))),
                       script[Len(outcome.locals.calls) + 1]),
                 suspicious_pairs, offset + max_pairs, max_pairs, script)

\* the loop, with range()'s ValueError for a step of zero and its empty
\* range for a negative step
Loop(suspicious_pairs, max_pairs, script) ==
    IF max_pairs = 0 THEN Threw(NoBatches, "range() arg 3 must not be zero")
    ELSE IF max_pairs < 0 THEN Continues(NoBatches)
    ELSE Batches(Continues(NoBatches), suspicious_pairs, 0, max_pairs, script)

InitialMeta(status) ==
    Dict(("model" :> NoneV) @@ ("usage" :> NoneV) @@ ("pairs_checked" :> Num(0))
         @@ ("pairs_confirmed" :> Num(0)) @@ ("elapsed_ms" :> Num(0))
         @@ ("status" :> Str(status)))

\* the counters of the locals written into meta
Counted(meta, locals, elapsed_ms) ==
    Dict([k \in DOMAIN meta.v |->
            CASE k = "model" -> locals.model_name
              [] k = "usage" -> locals.aggregated_usage
              [] k = "pairs_checked" -> Num(locals.total_pairs_checked)
              [] k = "pairs_confirmed" -> Num(locals.confirmed_count)
              [] k = "elapsed_ms" -> Num(elapsed_ms)
              [] OTHER -> meta.v[k]])

SemanticOutcome(issues, meta, calls) == [issues |-> issues, meta |-> meta, calls |-> calls]

\* the cost alert: the estimate is above a positive cutoff
OverCutoff(cost_estimate, cutoff) ==
    cutoff # NoneV /\ cutoff.v > 0 /\ cost_estimate.v > cutoff.v

\* a variant whose cost alert fails the check without marking meta
PricedUnmarked(locals, meta, cost_estimate, env) ==
    IF cost_estimate = NoneV
    THEN SemanticOutcome(locals.confirmed_issues, Put(meta, "status", Str("ok")), locals.calls)
    ELSE IF OverCutoff(cost_estimate, get_env_float(env.cost_alert))
    THEN SemanticOutcome(<<>>,
                         Put(Put(meta, "cost_estimate_usd", cost_estimate),
                             "status", Str("failed")),
                         locals.calls)
    ELSE SemanticOutcome(locals.confirmed_issues,
                         Put(Put(meta, "cost_estimate_usd", cost_estimate),
                             "status", Str("ok")),
                         locals.calls)

\* the end of the try block, the cost estimate being known
Priced(locals, meta, cost_estimate, env) ==
    IF cost_estimate = NoneV
    THEN SemanticOutcome(locals.confirmed_issues, Put(meta, "status", Str("ok")), locals.calls)
    ELSE IF OverCutoff(cost_estimate, get_env_float(env.cost_alert))
    THEN SemanticOutcome(<<>>,
                         Put(Put(Put(meta, "cost_estimate_usd", cost_estimate),
                                 "skipped_due_to_cost", Bool(TRUE)),
                             "status", Str("failed")),
                         locals.calls)
    ELSE SemanticOutcome(locals.confirmed_issues,
                         Put(Put(meta, "cost_estimate_usd", cost_estimate),
                             "status", Str("ok")),
                         locals.calls)

\* a variant whose except clause hands back what earlier batches confirmed
ConcludedKeepingIssues(outcome, env, elapsed_ms) ==
    IF outcome.raised
    THEN SemanticOutcome(outcome.locals.confirmed_issues,
                         Put(Put(Counted(InitialMeta("pending"), outcome.locals, elapsed_ms),
                                 "status", Str("failed")),
                             "error", Str(outcome.error)),
                         outcome.locals.calls)
    ELSE Priced(outcome.locals,
                Put(Counted(InitialMeta("pending"), outcome.locals, elapsed_ms),
                    "raw_response_excerpt", outcome.locals.raw_excerpt),
                estimate_cost_usd(outcome.locals.aggregated_usage, env), env)

\* what follows the loop, and the except clause
Concluded(outcome, env, elapsed_ms) ==
    IF outcome.raised
    THEN SemanticOutcome(<<>>,
                         Put(Put(Counted(InitialMeta("pending"), outcome.locals, elapsed_ms),
                                 "status", Str("failed")),
                             "error", Str(outcome.error)),
                         outcome.locals.calls)
    ELSE Priced(outcome.locals,
                Put(Counted(InitialMeta("pending"), outcome.locals, elapsed_ms),
                    "raw_response_excerpt", outcome.locals.raw_excerpt),
                estimate_cost_usd(outcome.locals.aggregated_usage, env), env)

\* max_pairs, overridden by a positive FINALIZE_SEMANTIC_CONTRADICTION_MAX_PAIRS
MaxPairsOf(max_pairs, max_pairs_env) ==
    IF ~Falsy(max_pairs_env) /\ max_pairs_env.v > 0 THEN max_pairs_env.v ELSE max_pairs

\* semantic_check(requirements, suspicious_pairs, trace_id, max_pairs=...):
\* env holds the texts of the environment variables, script the oracle's
\* answers, elapsed_ms the time the clock measures; the record and the trace
\* id play no part in the result
semantic_check(suspicious_pairs, max_pairs, env, script, elapsed_ms) ==
    IF Len(suspicious_pairs) = 0 THEN SemanticOutcome(<<>>, InitialMeta("skipped"), <<>>)
    ELSE IF ~get_env_bool(env.enabled, TRUE)
    THEN SemanticOutcome(<<>>,
                         Put(Put(InitialMeta("pending"), "status", Str("disabled")),
                             "skipped_due_to_config", Bool(TRUE)),
                         <<>>)
    ELSE Concluded(Loop(suspicious_pairs, MaxPairsOf(max_pairs, get_env_int(env.max_pairs)),
                        script),
                   env, elapsed_ms)

----------------------------------------------------------------------------
(* Calls of semantic_check                                                  *)

MaxSuspicious == 3

PairId(n) == "p-" \o IntToStr(n)

SuspiciousPair(n) ==
    Dict(("pair_id" :> Str(PairId(n))) @@ ("rule_id" :> Str("R_no_db_vs_dep"))
         @@ ("field_a" :> Str(Indexed("non_goals", n - 1)))
         @@ ("text_a" :> Str("no DB persistence"))
         @@ ("field_b" :> Str(Indexed("dependencies", n - 1)))
         @@ ("text_b" :> Str("Postgres 14"))
         @@ ("context" :> Str("Demo summary")))

SuspiciousPairs(n) == [i \in 1..n |-> SuspiciousPair(i)]

Verdict(pair_id, conflict, reason) ==
    Dict(("pair_id" :> pair_id) @@ ("conflict" :> conflict) @@ ("reason" :> reason)
         @@ ("confidence" :> Flt(9)))

\* the oracle confirms, or denies, every pair there may be
ConfirmAll ==
    List([i \in 1..(MaxSuspicious + 1) |->
            Verdict(Str(PairId(i)), Bool(TRUE), Str("Postgres implies persistence."))])

DenyAll ==
    List([i \in 1..(MaxSuspicious + 1) |->
            Verdict(Str(PairId(i)), Bool(FALSE), Str("They can be compatible."))])

\* verdicts of every kind: a conflict given as the text "false", an unknown
\* pair, a conflict without a reason, an entry that is no object, a denial,
\* and a pair id given as a number
OddVerdicts ==
    List(<<Verdict(Str("p-1"), Str("false"), Str("Not a conflict.")),
           Verdict(Str("p-9"), Bool(TRUE), Str("Unknown pair.")),
           Verdict(Str("p-2"), Bool(TRUE), NoneV),
           Num(7),
           Verdict(Str("p-2"), Bool(FALSE), Str("Fine.")),
           Verdict(Num(2), Num(0), Str("Zero."))>>)

\* three verdicts that confirm the same pair
RepeatedVerdicts ==
    List(<<Verdict(Str("p-1"), Bool(TRUE), Str("Once.")),
           Verdict(Str("p-1"), Bool(TRUE), Str("Twice.")),
           Verdict(Str("p-1"), Bool(TRUE), Str("Thrice."))>>)

Usage15 ==
    Dict(("prompt_tokens" :> Num(10)) @@ ("completion_tokens" :> Num(5))
         @@ ("total_tokens" :> Num(15)))

Usage10 ==
    Dict(("prompt_tokens" :> Num(7)) @@ ("completion_tokens" :> Num(3))
         @@ ("total_tokens" :> Num(10)))

SemanticReply(response) ==
    Returns(Dict(("response" :> response) @@ ("model" :> Str("gpt-5-nano"))
                 @@ ("usage" :> Usage15)))

\* a chat completion whose first message has the given content
Content(content) ==
    Dict(("choices" :> List(<<Dict(("message" :> Dict(("content" :> content))))>>)))

BatchReplies ==
    { SemanticReply(ConfirmAll),
      Returns(Dict(("response" :> DenyAll) @@ ("model" :> Str("gpt-5-mini"))
                   @@ ("usage" :> Usage10))),
      Raises("oracle timed out"),
      SemanticReply(Content(Str("this is not JSON"))),
      SemanticReply(Content(Json(Verdict(Str("p-1"), Bool(TRUE), Str("A lone verdict."))))) }

ShapeReplies ==
    BatchReplies
    \cup { SemanticReply(response) : response \in
            { OddVerdicts,
              RepeatedVerdicts,
              Content(Json(RepeatedVerdicts)),
              NoneV,
              Str("plain text"),
              EmptyList,
              Dict(("choices" :> EmptyList)),
              Content(NoneV),
              Content(Str("")),
              Content(Str("  \n")),
              Content(Json(ConfirmAll)),
              Content(Json(OddVerdicts)),
              Content(Json(Dict(("results" :> ConfirmAll)))),
              Content(Json(Dict(("verdicts" :> ConfirmAll)))),
              Content(Json(Dict(("a" :> List(<<Num(1)>>)) @@ ("b" :> List(<<Num(2)>>))))),
              Content(Json(Str("done"))),
              Content(Mixed(<<Str("Here you go: "), Json(ConfirmAll), Str(" Done.")>>)),
              Content(Mixed(<<Str("Nothing: "), Json(EmptyList)>>)),
              Content(List(<<Dict(("type" :> Str("text")) @@ ("text" :> Json(ConfirmAll)))>>)),
              Content(List(<<Dict(("value" :> Str("no "))), Str("x"),
                             Dict(("text" :> Str("JSON")))>>)),
              Content(Num(5)) } }
    \cup { Returns(Dict(("response" :> ConfirmAll) @@ ("model" :> NoneV) @@ ("usage" :> NoneV))),
           Returns(Dict(("response" :> ConfirmAll) @@ ("model" :> Str("gpt-5-nano"))
                        @@ ("usage" :> Dict(("total_tokens" :> Num(15)))))) }

\* the texts of the environment variables, None for an unset one
Env(enabled, max_pairs, input_price, output_price, cost_alert) ==
    [enabled |-> enabled, max_pairs |-> max_pairs, input_price |-> input_price,
     output_price |-> output_price, cost_alert |-> cost_alert]

DefaultEnv == Env(NoneV, NoneV, NoneV, NoneV, NoneV)

\* prices under which Usage15 costs 0.00004 USD, with a cutoff of 0.00001 USD
OverCostEnv == Env(NoneV, NoneV, Str("2.0"), Str("4.0"), Str("0.00001"))

PricedEnvs ==
    { OverCostEnv,
      Env(NoneV, NoneV, Str("2.0"), Str("4.0"), Str("1.0")),
      Env(NoneV, NoneV, Str("2.0"), Str("4.0"), Str("0.00004")),
      Env(NoneV, NoneV, Str("2.0"), Str("4.0"), Str("0")),
      Env(NoneV, NoneV, Str("2.0"), Str("4.0"), NoneV),
      Env(NoneV, NoneV, Str("2.0"), NoneV, Str("0.00001")),
      Env(NoneV, NoneV, Str("cheap"), Str(""), Str("0.00001")) }

ConfigEnvs ==
    { Env(enabled, max_pairs, NoneV, NoneV, NoneV) :
        enabled \in {NoneV, Str("off"), Str(" FALSE "), Str("maybe"), Str("1")},
        max_pairs \in {NoneV, Str("1"), Str(" 2 "), Str("0"), Str("-1"), Str("many")} }

SemanticScenario(pairs, max_pairs, env, script, elapsed_ms) ==
    [suspicious_pairs |-> pairs, max_pairs |-> max_pairs, env |-> env, script |-> script,
     elapsed_ms |-> elapsed_ms]

\* one batch, every shape of answer
ShapeScenarios ==
    { SemanticScenario(SuspiciousPairs(2), 5, env, <<reply>>, elapsed_ms) :
        env \in {DefaultEnv, OverCostEnv}, reply \in ShapeReplies, elapsed_ms \in {0, 12} }

RECURSIVE Scripts(_)
Scripts(n) ==
    IF n = 0 THEN {<<>>}
    ELSE {Append(script, reply) : script \in Scripts(n - 1), reply \in BatchReplies}

\* several batches, each with any of the batch replies
BatchScenarios ==
    UNION { { SemanticScenario(SuspiciousPairs(n), max_pairs, env, script, 12) :
                env \in {DefaultEnv, OverCostEnv},
                script \in Scripts((n + max_pairs - 1) \div max_pairs) }
            : n \in 0..MaxSuspicious, max_pairs \in {1, 2} }

\* every configuration, the oracle confirming whatever it is asked
ConfigScenarios ==
    { SemanticScenario(SuspiciousPairs(n), max_pairs, env,
                       [i \in 1..n |-> SemanticReply(ConfirmAll)], 12) :
        n \in {0, 2}, max_pairs \in {5, 0, -1}, env \in ConfigEnvs \cup PricedEnvs }

SemanticScenarios == ShapeScenarios \cup BatchScenarios \cup ConfigScenarios

\* the state after the call, r being what semantic_check returned
SemanticReturned(in, r) ==
    /\ scall' = [called |-> TRUE, in |-> in, issues |-> r.issues, meta |-> r.meta,
                 asked |-> r.calls]
    /\ oracle' = oracle + Len(r.calls)

\* one call of semantic_check with the arguments, the environment, the
\* oracle's answers and the clock of scall.in
SemanticCheck ==
    /\ scall.called = FALSE
    /\ "in" \in DOMAIN scall
    /\ SemanticReturned(scall.in,
                        semantic_check(scall.in.suspicious_pairs, scall.in.max_pairs,
                                       scall.in.env, scall.in.script, scall.in.elapsed_ms))
    /\ UNCHANGED <<pcall, vcall, ledger, run, icall, vpair, dcall, rcall>>

InitSemantic ==
    /\ scall \in {[called |-> FALSE, in |-> in] : in \in SemanticScenarios}
    /\ pcall = NoCall
    /\ vcall = NoCall
    /\ ledger = EmptyLedger
    /\ oracle = 0
    /\ run = NoCall
    /\ icall = NoCall
    /\ vpair = NoCall
    /\ dcall = NoCall
    /\ rcall = NoCall

NextSemantic == SemanticCheck

SpecSemantic == InitSemantic /\ [][NextSemantic]_vars

SemanticStatus == scall.meta.v["status"].v

SemanticTypeOK ==
    scall.called => /\ scall.meta.t = "dict"
                    /\ \A i \in 1..Len(scall.issues) : scall.issues[i].t = "dict"

----------------------------------------------------------------------------
(* Claims about semantic_check                                              *)

\* the replies the call consumed: one per oracle call
Consumed == SubSeq(scall.in.script, 1, oracle)

\* the oracle raised in some batch
OracleRaised == \E i \in 1..oracle : Consumed[i].raises

\* some answer could not be parsed: reading it raises
Unparseable ==
    \E i \in 1..oracle :
        /\ ~Consumed[i].raises
        /\ extract_semantic_results(Get(Consumed[i].result, "response")).raised

\* the usage of the first n answers, added up
RECURSIVE UsageAfter(_, _)
UsageAfter(script, n) ==
    IF n = 0 THEN NoneV
    ELSE IF script[n].raises THEN UsageAfter(script, n - 1)
    ELSE IF Get(script[n].result, "usage").t = "dict"
    THEN merge_usage(UsageAfter(script, n - 1), script[n].result.v["usage"])
    ELSE UsageAfter(script, n - 1)

\* every batch was answered and read, and the cost of the whole is above the
\* configured ceiling
OverCost ==
    /\ oracle > 0
    /\ ~OracleRaised
    /\ ~Unparseable
    /\ estimate_cost_usd(UsageAfter(scall.in.script, oracle), scall.in.env) # NoneV
    /\ OverCutoff(estimate_cost_usd(UsageAfter(scall.in.script, oracle), scall.in.env),
                  get_env_float(scall.in.env.cost_alert))

FailedEmpty ==
    /\ scall.issues = <<>>
    /\ SemanticStatus = "failed"
    /\ Get(scall.meta, "elapsed_ms") = Num(scall.in.elapsed_ms)

\* C15: semantic_check always returns: when the oracle raises in some batch,
\* or an answer cannot be parsed, or the cost estimate is above the ceiling,
\* it returns no issues and a meta with status failed and the elapsed time,
\* even when earlier batches had confirmed issues.
C15_FailsClosed ==
    scall.called =>
        /\ scall.meta.t = "dict"
        /\ (OracleRaised \/ Unparseable \/ OverCost) => FailedEmpty

\* a later batch raises after the first one confirmed its pair
C15_Witness ==
    /\ scall.called
    /\ oracle = 2
    /\ scall.in.script[1] = SemanticReply(ConfirmAll)
    /\ scall.in.script[2].raises
    /\ Get(scall.meta, "pairs_confirmed") = Num(1)
    /\ scall.in.elapsed_ms = 12
    /\ FailedEmpty

\* an answer that cannot be parsed after a confirmed batch
C15_WitnessUnparseable ==
    /\ scall.called /\ oracle = 2 /\ Unparseable
    /\ Get(scall.meta, "pairs_confirmed") = Num(1)
    /\ FailedEmpty

\* the cost ceiling exceeded with issues confirmed
C15_WitnessCost ==
    /\ scall.called /\ OverCost
    /\ Get(scall.meta, "pairs_confirmed").v > 0
    /\ FailedEmpty

MetaKeys == {"model", "usage", "pairs_checked", "pairs_confirmed", "elapsed_ms", "status"}

FinalStatuses == {"skipped", "disabled", "ok", "failed"}

MetaCarriesKeys ==
    /\ MetaKeys \subseteq DOMAIN scall.meta.v
    /\ scall.meta.v["status"].t = "str"
    /\ SemanticStatus \in FinalStatuses

HasErrorString == HasKey(scall.meta, "error") /\ scall.meta.v["error"].t = "str"

\* C16 as stated: every meta returned by semantic_check has the keys model,
\* usage, pairs_checked, pairs_confirmed, elapsed_ms and status, the status
\* being skipped, disabled, ok or failed, and a failed meta has an error string.
C16_Original ==
    scall.called =>
        /\ MetaCarriesKeys
        /\ SemanticStatus = "failed" => HasErrorString

\* C16: every meta returned by semantic_check has the six keys and a final
\* status; a failed meta has an error string, or, when the check failed on
\* the cost ceiling, skipped_due_to_cost = true and the cost estimate instead.
C16_Amended ==
    scall.called =>
        /\ MetaCarriesKeys
        /\ SemanticStatus = "failed" =>
              \/ HasErrorString
              \/ /\ ~HasKey(scall.meta, "error")
                 /\ Get(scall.meta, "skipped_due_to_cost") = Bool(TRUE)
                 /\ HasKey(scall.meta, "cost_estimate_usd")

\* a check failed on the cost ceiling: status failed and no error key
C16_Witness ==
    /\ scall.called
    /\ OverCost
    /\ SemanticStatus = "failed"
    /\ ~HasKey(scall.meta, "error")
    /\ Get(scall.meta, "skipped_due_to_cost") = Bool(TRUE)

\* a check failed on an exception: status failed with the error string
C16_WitnessError ==
    /\ scall.called /\ OracleRaised /\ SemanticStatus = "failed"
    /\ Get(scall.meta, "error") = Str("oracle timed out")

\* the batch size the call works with
BatchSize == MaxPairsOf(scall.in.max_pairs, get_env_int(scall.in.env.max_pairs))

\* the pairs handed to the oracle in the i-th call
BatchOf(i) ==
    SubSeq(scall.in.suspicious_pairs, (i - 1) * BatchSize + 1,
           Min(i * BatchSize, Len(scall.in.suspicious_pairs)))

\* the pairs of the batch with the verdict's pair_id
Matching(item, batch) ==
    {j \in 1..Len(batch) : HasKey(item, "pair_id") /\ Get(batch[j], "pair_id") = item.v["pair_id"]}

ReasonOf(item) ==
    IF Get(item, "reason").t = "str" /\ Get(item, "reason").v # "" THEN item.v["reason"].v
    ELSE DefaultReason

\* whether the verdict counts as a conflict: its conflict is the JSON value
\* true, or, read loosely, any value Python takes for true
Confirms(item, strictly) ==
    IF strictly THEN Get(item, "conflict") = Bool(TRUE) ELSE ~Falsy(Get(item, "conflict"))

\* the issue the statement owes for one verdict
OwedIssue(item, batch, strictly) ==
    IF Confirms(item, strictly) /\ Matching(item, batch) # {}
    THEN <<ContradictionIssue(
              Get(batch[CHOOSE j \in Matching(item, batch) : TRUE], "field_a").v \o " & "
                \o Get(batch[CHOOSE j \in Matching(item, batch) : TRUE], "field_b").v,
              ReasonOf(item))>>
    ELSE <<>>

RECURSIVE OwedOfBatch(_, _, _)
OwedOfBatch(results, batch, strictly) ==
    IF Len(results) = 0 THEN <<>>
    ELSE OwedIssue(results[1], batch, strictly) \o OwedOfBatch(Tail(results), batch, strictly)

\* the issues owed for the answers to the first n calls
RECURSIVE OwedIssues(_, _)
OwedIssues(n, strictly) ==
    IF n = 0 THEN <<>>
    ELSE OwedIssues(n - 1, strictly)
         \o OwedOfBatch(extract_semantic_results(Get(Consumed[n].result, "response")).results,
                        BatchOf(n), strictly)

\* C17 as stated: the issues of a check that ended ok are, verdict by verdict,
\* one issue for every verdict whose conflict is true and whose pair_id is that
\* of a pair handed to the oracle, with the field "<field_a> & <field_b>" of
\* the pair and the verdict's reason or the default text; every other verdict
\* gives nothing.
C17_Original ==
    (scall.called /\ SemanticStatus = "ok") =>
        scall.issues = OwedIssues(oracle, TRUE)

\* what the code does: any truthy conflict value counts
C17_TruthyConflict ==
    (scall.called /\ SemanticStatus = "ok") =>
        scall.issues = OwedIssues(oracle, FALSE)

\* the verdict {"pair_id": "p-1", "conflict": "false"} confirmed pair p-1
C17_TextFalseConfirms ==
    /\ scall.called
    /\ oracle = 1
    /\ ~scall.in.script[1].raises
    /\ Get(scall.in.script[1].result, "response") = OddVerdicts
    /\ SemanticStatus = "ok"
    /\ Len(scall.issues) = 2
    /\ scall.issues[1] = ContradictionIssue("non_goals[0] & dependencies[0]", "Not a conflict.")
    /\ scall.issues[2] = ContradictionIssue("non_goals[1] & dependencies[1]", DefaultReason)

\* the parts of the text of a chat completion's first message, none when the
\* response is no chat completion or its content is no text
ResponseParts(response) ==
    IF response.t # "dict" THEN <<>>
    ELSE IF Falsy(Get(response, "choices")) THEN <<>>
    ELSE LET content == Get(OrEmptyDict(Get(response.v["choices"].v[1], "message")), "content")
         IN  IF IsText(content) THEN TextParts(content)
             ELSE IF content.t = "list" THEN ContentParts(content.v)
             ELSE <<>>

\* the text is JSON: a list, or an object with a results list
IsVerdictJson(text, parts) ==
    /\ json_loads(text, parts).ok
    /\ \/ json_loads(text, parts).val.t = "list"
       \/ /\ json_loads(text, parts).val.t = "dict"
          /\ Get(json_loads(text, parts).val, "results").t = "list"

\* the text holds a JSON array from its first "[" to its last "]"
HoldsArray(text, parts) ==
    /\ FirstIndex(text, "[") # 0
    /\ LastIndex(text, "]") > FirstIndex(text, "[")
    /\ json_loads(SubSeq(text, FirstIndex(text, "["), LastIndex(text, "]")), parts).ok
    /\ json_loads(SubSeq(text, FirstIndex(text, "["), LastIndex(text, "]")), parts).val.t = "list"

\* the response holds verdict JSON in one of the three shapes
HoldsVerdictJson(response) ==
    \/ response.t = "list"
    \/ IsVerdictJson(PyStrip(Render(ResponseParts(response))), ResponseParts(response))
    \/ HoldsArray(PyStrip(Render(ResponseParts(response))), ResponseParts(response))

\* some batch was answered without verdict JSON
AnsweredWithoutVerdicts ==
    \E i \in 1..oracle :
        /\ ~Consumed[i].raises
        /\ ~HoldsVerdictJson(Get(Consumed[i].result, "response"))

\* C18 as stated: when the answer to a batch holds no parseable verdict JSON
\* (no list of verdicts, no JSON with a results list, no JSON array between
\* the first "[" and the last "]" of a text), semantic_check returns no
\* issues, with status failed and an error in meta, and never status ok.
C18_Original ==
    (scall.called /\ AnsweredWithoutVerdicts) =>
        /\ scall.issues = <<>>
        /\ SemanticStatus = "failed"
        /\ HasErrorString

\* an empty answer is reported as a check that went through
C18_EmptyAnswerOk ==
    /\ scall.called
    /\ oracle = 1
    /\ ~scall.in.script[1].raises
    /\ Get(scall.in.script[1].result, "response") = Content(Str(""))
    /\ AnsweredWithoutVerdicts
    /\ SemanticStatus = "ok"
    /\ ~HasKey(scall.meta, "error")
    /\ Get(scall.meta, "pairs_checked") = Num(2)

\* what the code does: an answer whose reading raises fails the check
C18_RaisingAnswerFails ==
    (scall.called /\ Unparseable) =>
        /\ scall.issues = <<>>
        /\ SemanticStatus = "failed"
        /\ HasErrorString
        /\ AnsweredWithoutVerdicts

Ceil(n, m) == (n + m - 1) \div m

\* the number of calls the batching owes
CallsOwed == Ceil(Len(scall.in.suspicious_pairs), BatchSize)

SemanticEnabled == get_env_bool(scall.in.env.enabled, TRUE)

\* the oracle answers every call the batching owes, with an answer that can
\* be read
EveryCallAnswered ==
    /\ CallsOwed <= Len(scall.in.script)
    /\ \A i \in 1..CallsOwed :
          /\ ~scall.in.script[i].raises
          /\ ~extract_semantic_results(Get(scall.in.script[i].result, "response")).raised

RECURSIVE Flatten(_)
Flatten(batches) ==
    IF Len(batches) = 0 THEN <<>> ELSE batches[1] \o Flatten(Tail(batches))

\* the counter k of a usage, 0 when there is none
TokensOf(usage, k) ==
    IF usage.t = "dict" /\ Get(usage, k).t = "num" THEN usage.v[k].v ELSE 0

\* the counter k added up over the first n answers
RECURSIVE SumTokens(_, _, _)
SumTokens(script, n, k) ==
    IF n = 0 THEN 0
    ELSE SumTokens(script, n - 1, k) + TokensOf(Get(script[n].result, "usage"), k)

C21_WitnessSkipped ==
    /\ scall.called
    /\ Len(scall.in.suspicious_pairs) = 0
    /\ SemanticStatus = "skipped"
    /\ oracle = 0

----------------------------------------------------------------------------
(* Calls of attempt_repair                                                  *)

\* the oracle's answers to the repair request: every reply of the runs, and
\* answers with other models and usages
AttemptReplies ==
    RepairReplies \cup UsableReplies \cup UnusableReplies
    \cup { Returns(Dict(("response" :> Completion(<<ToolCall("finalize_requirements",
                                                              Json(payload))>>))
                        @@ ("model" :> model) @@ ("usage" :> usage))) :
             payload \in {CleanPayload, RepairedBeforePayload},
             model \in {NoneV, Num(4), Str("gpt-5-nano")},
             usage \in {NoneV, Str("unknown"), Dict(("total_tokens" :> NoneV)),
                        Dict(("total_tokens" :> Num(0))), Usage15} }

\* the payloads that failed validation, with the errors found
RejectedPayloads == {IncompletePayload, SomeValuePayload, EmptyDict}

RepairScenario(raw_payload, errors, trace_id, reply) ==
    [raw_payload |-> raw_payload, validation_errors |-> errors, trace_id |-> trace_id,
     reply |-> reply]

RepairScenarios ==
    { RepairScenario(raw_payload, validate_and_normalize(raw_payload).errors, trace_id, reply) :
        raw_payload \in RejectedPayloads, trace_id \in {NoneV, Str("trace-1")},
        reply \in AttemptReplies }

\* the state after the call, r being what attempt_repair did
RepairReturned(in, r) ==
    /\ rcall' = [called |-> TRUE, in |-> in, raised |-> r.raised, record |-> r.record,
                 repaired |-> r.repaired, meta |-> r.meta, validations |-> r.validations,
                 built |-> r.built]
    /\ oracle' = oracle + r.calls

\* one call of attempt_repair with the arguments and the oracle's reply of
\* rcall.in
AttemptRepair ==
    /\ rcall.called = FALSE
    /\ "in" \in DOMAIN rcall
    /\ RepairReturned(rcall.in,
                      attempt_repair(rcall.in.raw_payload, rcall.in.validation_errors,
                                     rcall.in.trace_id, rcall.in.reply))
    /\ UNCHANGED <<pcall, vcall, ledger, run, icall, vpair, dcall, scall>>

InitRepair ==
    /\ rcall \in {[called |-> FALSE, in |-> in] : in \in RepairScenarios}
    /\ pcall = NoCall
    /\ vcall = NoCall
    /\ ledger = EmptyLedger
    /\ oracle = 0
    /\ run = NoCall
    /\ icall = NoCall
    /\ vpair = NoCall
    /\ dcall = NoCall
    /\ scall = NoCall

NextRepair == AttemptRepair

SpecRepair == InitRepair /\ [][NextRepair]_vars

\* C22: every call of attempt_repair calls the oracle exactly once, whatever
\* the oracle does, and runs validate_and_normalize on the repaired payload
\* at most once.
C22_OneCall ==
    /\ oracle <= 1
    /\ rcall.called => /\ oracle = 1
                       /\ rcall.validations <= 1

\* the repaired payload was validated and is still invalid: one call, one
\* validation, no record
C22_Witness ==
    /\ rcall.called
    /\ oracle = 1
    /\ rcall.validations = 1
    /\ rcall.record = NoneV
    /\ rcall.repaired = SomeValuePayload

\* the answer cannot be parsed: one call, no validation
C22_WitnessUnparseable ==
    /\ rcall.called
    /\ oracle = 1
    /\ rcall.validations = 0
    /\ ~rcall.in.reply.raises
    /\ rcall.repaired = NoneV

\* the oracle answered and its response holds no arguments to extract
NothingExtracted ==
    /\ ~rcall.in.reply.raises
    /\ Falsy(extract_function_args_from_model_response(
                 OrEmptyDict(Get(rcall.in.reply.result, "response"))))

\* C23: attempt_repair never raises when the oracle fails: when the oracle
\* call raises it returns (None, None, {error: message}), with no record and
\* no repaired payload, as when the response holds no arguments to extract.
C23_OracleFailure ==
    rcall.called =>
        /\ ~rcall.raised
        /\ rcall.in.reply.raises =>
              /\ rcall.record = NoneV
              /\ rcall.repaired = NoneV
              /\ rcall.meta = Dict(("error" :> Str(rcall.in.reply.message)))
        /\ NothingExtracted =>
              /\ rcall.record = NoneV
              /\ rcall.repaired = NoneV

\* the oracle raised and the call returned the error
C23_Witness ==
    /\ rcall.called
    /\ rcall.in.reply.raises
    /\ ~rcall.raised
    /\ rcall.record = NoneV
    /\ rcall.repaired = NoneV
    /\ rcall.meta = Dict(("error" :> Str("connection reset")))

\* the response held nothing to extract: the same outcome, with the model
\* and usage in place of the error
C23_WitnessNothing ==
    /\ rcall.called
    /\ NothingExtracted
    /\ rcall.record = NoneV
    /\ rcall.repaired = NoneV
    /\ ~HasKey(rcall.meta, "error")

\* the record's meta says that a repair was attempted
SaysRepaired(record) == record # NoneV /\ Get(record.v["meta"], "repair_attempted") = Bool(TRUE)

\* C24 as stated, for run_finalize, which makes no repair call: a run never
\* returns a record whose meta has repair_attempted = true, whatever the
\* meta of the input payload says.
C24_Original == run.called => ~SaysRepaired(run.requirements)

\* the payload's own repair_attempted = true comes back in the record of a
\* run that validated at once and called no oracle
C24_PayloadSaysRepaired ==
    /\ run.called
    /\ run.in.raw_payload = RepairedBeforePayload
    /\ oracle = 0
    /\ run.status = "needs_clarification"
    /\ SaysRepaired(run.requirements)

\* what attempt_repair does: it hands back a record only after its one
\* oracle call, and that record says repair_attempted = true
C24_RepairMarks ==
    (rcall.called /\ rcall.record # NoneV) => (oracle = 1 /\ SaysRepaired(rcall.record))

\* C25 as stated: once validate_and_normalize has constructed a record, no
\* later step of run_finalize changes a field of that object, its meta
\* included: at the end of the run the object is as it was constructed.
C25_Original == (run.called /\ run.built # NoneV) => run.object = run.built

\* the oracle's model name and token count are assigned to the meta of the
\* constructed record
C25_StampedInPlace ==
    /\ run.called
    /\ run.built # NoneV
    /\ oracle = 1
    /\ Get(run.built.v["meta"], "token_usage") = NoneV
    /\ Get(run.object.v["meta"], "token_usage") = Num(5)
    /\ Get(run.object.v["meta"], "model") = Str("gpt-4o-mini")
    /\ Get(run.built.v["meta"], "model") # Str("gpt-4o-mini")

\* the same in attempt_repair: the record it hands back is the constructed
\* object with repair_attempted assigned
C25_RepairInPlace ==
    /\ rcall.called
    /\ rcall.built # NoneV
    /\ ~SaysRepaired(rcall.built)
    /\ SaysRepaired(rcall.record)

\* what does hold: attaching a contradiction leaves the stamped object as it
\* is and hands back a copy
C25_ContradictionOnCopy ==
    (run.called /\ run.built # NoneV) =>
        \/ run.requirements = run.object
        \/ /\ detect_contradictions(run.object) # NoneV
           /\ run.requirements = Put(run.object, "contradiction", detect_contradictions(run.object))

----------------------------------------------------------------------------
(* validate_and_normalize, called again on the record it returned           *)

\* validate_and_normalize(record): _prepare_payload takes the model_dump()
\* of a Requirements instance, which the record of the model already is
ValidateAgain ==
    /\ vcall.called
    /\ vcall.record # NoneV
    /\ "again" \notin DOMAIN vcall
    /\ LET r == validate_and_normalize(vcall.record)
       IN  vcall' = [called |-> TRUE, payload |-> vcall.payload,
                     record |-> vcall.record, errors |-> vcall.errors,
                     again |-> [record |-> r.record, errors |-> r.errors]]
    /\ UNCHANGED <<pcall, ledger, oracle, run, icall, vpair, dcall, scall, rcall>>

NextAgain == ValidateAndNormalize \/ ValidateAgain

SpecAgain == InitValidate /\ [][NextAgain]_vars

ValidatedAgain == vcall.called /\ "again" \in DOMAIN vcall

\* C26 as stated: the record returned for an accepted payload, passed back
\* into validate_and_normalize, gives an equal record and no errors.
C26_Original ==
    ValidatedAgain => /\ vcall.again.errors = <<>>
                      /\ vcall.again.record = vcall.record

\* a metric of 308 characters, built from a list after the trimming, is cut
\* to 200 characters when the record is validated again
C26_MetricCutAgain ==
    /\ ValidatedAgain
    /\ vcall.again.record # NoneV
    /\ Len(vcall.record.v["non_functional_requirements"].v[1].v["metric"].v) = 308
    /\ Len(vcall.again.record.v["non_functional_requirements"].v[1].v["metric"].v) = 200

\* C27: in every result of run_finalize, whatever the path, the status is
\* needs_human_review exactly when the record is absent, and exactly when
\* the list of errors is not empty.
C27_ThreeTogether ==
    run.called =>
        /\ (run.status = "needs_human_review") <=> (run.requirements = NoneV)
        /\ (run.requirements = NoneV) <=> (Len(run.errors) > 0)

\* a run stopped by a guardrail before the oracle
C27_Witness ==
    /\ run.called
    /\ run.in.use_llm
    /\ oracle = 0
    /\ run.in.raw_payload = NoneV
    /\ run.status = "needs_human_review"
    /\ run.requirements = NoneV
    /\ Len(run.errors) = 1

\* a run whose structuring call failed
C27_WitnessStructuring ==
    /\ run.called /\ oracle = 1 /\ run.in.reply.raises
    /\ run.status = "needs_human_review" /\ run.requirements = NoneV /\ Len(run.errors) = 1

\* a run whose payload was rejected with two errors
C27_WitnessRejected ==
    /\ run.called /\ run.in.raw_payload = IncompletePayload
    /\ run.status = "needs_human_review" /\ run.requirements = NoneV /\ Len(run.errors) = 2

\* a run that returned a record
C27_WitnessAccepted ==
    /\ run.called /\ run.requirements # NoneV
    /\ run.status = "needs_clarification" /\ run.errors = <<>>

\* the structuring call of the run reached the oracle, which reported a
\* usage with total_tokens > 0
OracleReportedTokens ==
    /\ run.called
    /\ oracle = 1
    /\ ~run.in.reply.raises
    /\ Get(run.in.reply.result, "usage").t = "dict"
    /\ Get(run.in.reply.result.v["usage"], "total_tokens").t = "num"
    /\ run.in.reply.result.v["usage"].v["total_tokens"].v > 0

\* the day's entry of the usage ledger has grown by the call
LedgerCounted ==
    /\ ledger.tokens = run.ledger_before.tokens
                         + run.in.reply.result.v["usage"].v["total_tokens"].v
    /\ ledger.calls = run.ledger_before.calls + 1

\* C30 as stated: every structuring call that reached the oracle and reported
\* total_tokens > 0 is added to the day's entry of the usage ledger, also when
\* the response could not be extracted.
C30_Original == OracleReportedTokens => LedgerCounted

\* the oracle reported 5 tokens with a response that holds no tool call: the
\* run fails and the ledger stays as it was
C30_SpentUncounted ==
    /\ OracleReportedTokens
    /\ run.in.reply = ClientResult(Completion(<<>>), Usage5)
    /\ run.status = "needs_human_review"
    /\ ledger = run.ledger_before

\* what the code does: the call is counted when the payload was extracted
C30_ExtractedCounted ==
    (OracleReportedTokens /\ ~extract_function_payload(
                                  OrEmptyDict(Get(run.in.reply.result, "response"))).raised)
        => LedgerCounted

\* C28 as stated: semantic_check confirms each input pair at most once: it
\* returns no more issues than there are input pairs and pairs_confirmed is
\* at most pairs_checked, also when an answer repeats a pair_id.
C28_Original ==
    scall.called =>
        /\ Len(scall.issues) <= Len(scall.in.suspicious_pairs)
        /\ Get(scall.meta, "pairs_confirmed").v <= Get(scall.meta, "pairs_checked").v

\* three verdicts for the pair p-1: three issues for two input pairs
C28_RepeatedConfirmed ==
    /\ scall.called
    /\ oracle = 1
    /\ ~scall.in.script[1].raises
    /\ Get(scall.in.script[1].result, "response") = RepeatedVerdicts
    /\ Len(scall.in.suspicious_pairs) = 2
    /\ SemanticStatus = "ok"
    /\ Len(scall.issues) = 3
    /\ scall.issues[1].v["field"] = scall.issues[3].v["field"]
    /\ Get(scall.meta, "pairs_checked") = Num(2)
    /\ Get(scall.meta, "pairs_confirmed") = Num(3)

\* what does hold: without a repeated pair_id in an answer, the bounds hold

NoRepeats(results) ==
    \A i, j \in 1..Len(results) :
        (i # j /\ HasKey(results[i], "pair_id") /\ HasKey(results[j], "pair_id")
               /\ ~Falsy(Get(results[i], "conflict")) /\ ~Falsy(Get(results[j], "conflict")))
            => PyStr(results[i].v["pair_id"]) # PyStr(results[j].v["pair_id"])

C28_DistinctVerdicts ==
    (scall.called /\ \A i \in 1..oracle :
                        Consumed[i].raises
                        \/ NoRepeats(extract_semantic_results(
                                         Get(Consumed[i].result, "response")).results))
        => /\ Len(scall.issues) <= Len(scall.in.suspicious_pairs)
           /\ Get(scall.meta, "pairs_confirmed").v <= Get(scall.meta, "pairs_checked").v

\* the collected sources whose text holds the phrase "no database"
NoDatabaseFields(req) ==
    SelectSeq(CollectedFields(req), LAMBDA f : Contains(normalize_text(f.text), "no database"))

\* the text with every "no database" taken out
RECURSIVE WithoutNoDatabase(_)
WithoutNoDatabase(text) ==
    IF Len(text) < Len("no database") THEN text
    ELSE IF SubSeq(text, 1, Len("no database")) = "no database"
    THEN WithoutNoDatabase(SubSeq(text, Len("no database") + 1, Len(text)))
    ELSE SubSeq(text, 1, 1) \o WithoutNoDatabase(SubSeq(text, 2, Len(text)))

\* no source speaks of persistence, nor of a database apart from the phrase
NoPersistenceElsewhere(req) ==
    \A i \in 1..Len(CollectedFields(req)) :
        ~has_persistence(WithoutNoDatabase(normalize_text(CollectedFields(req)[i].text)))

\* one statement of "no database" and nothing about persistence
SingleNoDatabase(req) ==
    /\ Len(NoDatabaseFields(req)) = 1
    /\ NoPersistenceElsewhere(req)

\* C29 as stated: for a record in which exactly one source holds the phrase
\* "no database" and no source speaks of persistence, or of a database apart
\* from that phrase, detect_contradictions reports no issue of the
\* no-db-vs-persistence rule.
C29_Original ==
    (dcall.called /\ SingleNoDatabase(dcall.requirements))
        => DetectedWith(NoDbExplanation) = <<>>

\* the one non-goal "No database" is reported as contradicting itself
C29_SelfContradiction ==
    /\ dcall.called
    /\ dcall.requirements = WithItems(<<Str("No database")>>, <<>>)
    /\ SingleNoDatabase(dcall.requirements)
    /\ DetectedIssues = <<ContradictionIssue("non_goals[0] & non_goals[0]", NoDbExplanation)>>

====
